---- MODULE Spec2Model ----
(***************************************************************************)
(* Query compilation in the langchain-azure vector stores.                 *)
(*                                                                         *)
(*   SQLServer_VectorStore._create_filter_clause / _handle_field_filter    *)
(*       (libs/sqlserver/langchain_sqlserver/vectorstores.py)              *)
(*   AzureCosmosDBNoSqlVectorSearch._construct_query and its helpers       *)
(*       (libs/azure-ai/.../vectorstores/azure_cosmos_db_no_sql.py)        *)
(*                                                                         *)
(* Both are pure functions of their arguments and of the store's           *)
(* configuration.  The state is the frame of the most recent call: which   *)
(* operation ran (op), with which arguments (args), and what it returned   *)
(* or raised (ret).                                                        *)
(*                                                                         *)
(* The search, MMR and add_texts operations of both stores talk to their   *)
(* collaborators (the embedding function, the SQLAlchemy session, the      *)
(* Cosmos container).  calls is the sequence of collaborator calls the     *)
(* current operation has made, in program order; sql_table holds the       *)
(* committed rows of the SQL Server table, table_exists whether drop has   *)
(* left the table in place, container the items of the Cosmos container,   *)
(* and uuid_count counts the uuid4() values drawn.  pc is the position of  *)
(* a call that writes to its store in several steps.                       *)
(*                                                                         *)
(* Python strings are sequences of one-character strings, so that          *)
(* startswith, isidentifier, lower, split, str() and f-string assembly are *)
(* computed.  Text that the code only emits (SQL keywords, fixed message   *)
(* parts) is kept as one element per literal fragment; Chars gives the     *)
(* characters of such a text, and containment (Occurs) is decided on the   *)
(* characters.  The alphabet is ASCII (with the controls \t, \n, \f, \r)   *)
(* and the Latin-1 range U+00A0..U+00FF; the string operations below       *)
(* follow Python 3 on this alphabet.                                       *)
(***************************************************************************)
EXTENDS Integers, Sequences, FiniteSets, TLC

VARIABLES op, args, ret, sa_has_nin, calls, sql_table, table_exists, container, uuid_count, pc

vars ==
    <<op, args, ret, sa_has_nin, calls, sql_table, table_exists, container,
      uuid_count, pc>>

\* what a call that only computes leaves alone
world == <<calls, sql_table, table_exists, container, uuid_count, pc>>

(***************************************************************************)
(* Python values.                                                          *)
(***************************************************************************)
PyNone == [t |-> "None"]

PyBool(b) == [t |-> "bool", b |-> b]

PyInt(n) == [t |-> "int", n |-> n]

\* A float with one decimal digit: PyFloat(2, 5) is 2.5.
PyFloat(i, f) == [t |-> "float", i |-> i, f |-> f]

PyStr(s) == [t |-> "str", s |-> s]

PyList(xs) == [t |-> "list", items |-> xs]

PyTuple(xs) == [t |-> "tuple", items |-> xs]

\* A dict is the ordered sequence of its <<key, value>> pairs; keys are strings.
PyDict(kv) == [t |-> "dict", kv |-> kv]

(***************************************************************************)
(* Sequence helpers.                                                       *)
(***************************************************************************)
Range(s) == {s[i] : i \in 1..Len(s)}

RECURSIVE Flatten(_)
Flatten(ss) == IF ss = <<>> THEN <<>> ELSE Head(ss) \o Flatten(Tail(ss))

\* sep.join(parts)
RECURSIVE Join(_, _)
Join(sep, parts) ==
    IF parts = <<>> THEN <<>>
    ELSE IF Len(parts) = 1 THEN parts[1]
    ELSE parts[1] \o sep \o Join(sep, Tail(parts))

\* the characters of a text whose elements are fragments of any length
Chars(s) == Flatten([k \in 1..Len(s) |-> [i \in 1..Len(s[k]) |-> SubSeq(s[k], i, i)]])

\* needle in hay: the characters of needle are a contiguous run of the
\* characters of hay
Occurs(needle, hay) ==
    \E n \in {Chars(needle)}, h \in {Chars(hay)} :
        \E i \in 0..(Len(h) - Len(n)) : \A j \in 1..Len(n) : h[i + j] = n[j]

SeqsUpTo(S, n) == UNION {[1..m -> S] : m \in 0..n}

(***************************************************************************)
(* Python string operations.                                               *)
(***************************************************************************)
LowerCase == <<"a", "b", "c", "d", "e", "f", "g", "h", "i", "j", "k", "l", "m",
               "n", "o", "p", "q", "r", "s", "t", "u", "v", "w", "x", "y", "z">>

UpperCase == <<"A", "B", "C", "D", "E", "F", "G", "H", "I", "J", "K", "L", "M",
               "N", "O", "P", "Q", "R", "S", "T", "U", "V", "W", "X", "Y", "Z">>

\* the upper-case letters of U+00C0..U+00DE and, at the same position, the
\* letter str.lower maps each to
Latin1UpperCase == <<"À", "Á", "Â", "Ã", "Ä", "Å", "Æ", "Ç", "È", "É", "Ê", "Ë", "Ì",
                     "Í", "Î", "Ï", "Ð", "Ñ", "Ò", "Ó", "Ô", "Õ", "Ö", "Ø", "Ù", "Ú",
                     "Û", "Ü", "Ý", "Þ">>

Latin1LowerCase == <<"à", "á", "â", "ã", "ä", "å", "æ", "ç", "è", "é", "ê", "ë", "ì",
                     "í", "î", "ï", "ð", "ñ", "ò", "ó", "ô", "õ", "ö", "ø", "ù", "ú",
                     "û", "ü", "ý", "þ">>

Digits == <<"0", "1", "2", "3", "4", "5", "6", "7", "8", "9">>

\* the characters str.isidentifier accepts in first place, "_" aside
Letters ==
    Range(LowerCase) \cup Range(UpperCase)
        \cup Range(Latin1LowerCase) \cup Range(Latin1UpperCase)
        \cup {"ª", "µ", "º", "ß", "ÿ"}

\* what str.isidentifier accepts after the first place and not in it: the
\* digits and the middle dot U+00B7
IdentifierContinue == Range(Digits) \cup {"·"}

\* the characters str.split() separates at: space, \t, \n, \f, \r and the
\* no-break space U+00A0
Whitespace == {" ", "\t", "\n", "\f", "\r", " "}

\* str.startswith
startswith(s, prefix) ==
    /\ Len(s) >= Len(prefix)
    /\ \A i \in 1..Len(prefix) : s[i] = prefix[i]

\* str.isidentifier: a letter or underscore, then letters, underscores, digits
\* and middle dots
isidentifier(s) ==
    /\ Len(s) > 0
    /\ s[1] \in Letters \cup {"_"}
    /\ \A i \in 1..Len(s) : s[i] \in Letters \cup IdentifierContinue \cup {"_"}

lowerchar(c) ==
    IF c \in Range(UpperCase)
    THEN LowerCase[CHOOSE i \in 1..Len(UpperCase) : UpperCase[i] = c]
    ELSE IF c \in Range(Latin1UpperCase)
    THEN Latin1LowerCase[CHOOSE i \in 1..Len(Latin1UpperCase) : Latin1UpperCase[i] = c]
    ELSE c

\* str.lower
lower(s) == [i \in 1..Len(s) |-> lowerchar(s[i])]

\* str.split() on runs of whitespace
RECURSIVE SplitFrom(_, _, _)
SplitFrom(s, i, word) ==
    IF i > Len(s) THEN (IF word = <<>> THEN <<>> ELSE <<word>>)
    ELSE IF s[i] \in Whitespace
         THEN (IF word = <<>> THEN <<>> ELSE <<word>>) \o SplitFrom(s, i + 1, <<>>)
         ELSE SplitFrom(s, i + 1, Append(word, s[i]))

split(s) == SplitFrom(s, 1, <<>>)

\* str(n) for an int
RECURSIVE IntStr(_)
IntStr(n) ==
    IF n < 0 THEN <<"-">> \o IntStr(0 - n)
    ELSE IF n < 10 THEN <<Digits[n + 1]>>
    ELSE IntStr(n \div 10) \o <<Digits[(n % 10) + 1]>>

\* one character inside the quotes of a repr: the backslash is doubled, the
\* quote character in use is escaped, and a character that is not printable
\* (of the alphabet: \t, \n, \r, \f, the no-break space U+00A0 and the soft
\* hyphen U+00AD) is written as its escape
ReprChar(c, quote) ==
    CASE c = "\\" -> <<"\\", "\\">>
      [] c = quote -> <<"\\", quote>>
      [] c = "\t" -> <<"\\", "t">>
      [] c = "\n" -> <<"\\", "n">>
      [] c = "\r" -> <<"\\", "r">>
      [] c = "\f" -> <<"\\", "x", "0", "c">>
      [] c = " " -> <<"\\", "x", "a", "0">>
      [] c = "­" -> <<"\\", "x", "a", "d">>
      [] OTHER -> <<c>>

\* repr of a str: single quotes, or double quotes when the text holds a single
\* quote and no double quote
StrRepr(s) ==
    LET quote == IF "'" \in Range(s) /\ "\"" \notin Range(s) THEN "\"" ELSE "'"
    IN  <<quote>> \o Flatten([i \in 1..Len(s) |-> ReprChar(s[i], quote)]) \o <<quote>>

\* repr(v)
RECURSIVE repr(_)
repr(v) ==
    CASE v.t = "None" -> <<"N", "o", "n", "e">>
      [] v.t = "bool" -> IF v.b THEN <<"T", "r", "u", "e">>
                                ELSE <<"F", "a", "l", "s", "e">>
      [] v.t = "int" -> IntStr(v.n)
      [] v.t = "float" -> IntStr(v.i) \o <<".">> \o IntStr(v.f)
      [] v.t = "str" -> StrRepr(v.s)
      [] v.t = "list" ->
            <<"[">> \o Join(<<",", " ">>, [i \in 1..Len(v.items) |-> repr(v.items[i])])
                    \o <<"]">>
      [] v.t = "tuple" ->
            <<"(">> \o Join(<<",", " ">>, [i \in 1..Len(v.items) |-> repr(v.items[i])])
                    \o (IF Len(v.items) = 1 THEN <<",">> ELSE <<>>) \o <<")">>
      [] v.t = "dict" ->
            <<"{">> \o Join(<<",", " ">>, [i \in 1..Len(v.kv) |->
                          StrRepr(v.kv[i][1]) \o <<":", " ">> \o repr(v.kv[i][2])])
                    \o <<"}">>

\* str(v): the text itself for a str, repr(v) otherwise
str(v) == IF v.t = "str" THEN v.s ELSE repr(v)

\* whether iter(v) succeeds (a TypeError otherwise)
IsIterable(v) == v.t \in {"str", "list", "tuple", "dict"}

\* iter(v): the elements a for loop or an unpacking sees (a str gives its
\* characters, a dict its keys)
Iter(v) ==
    CASE v.t = "str" -> [i \in 1..Len(v.s) |-> PyStr(<<v.s[i]>>)]
      [] v.t \in {"list", "tuple"} -> v.items
      [] v.t = "dict" -> [i \in 1..Len(v.kv) |-> PyStr(v.kv[i][1])]

(***************************************************************************)
(* SQLServer_VectorStore: operator tables.                                 *)
(***************************************************************************)
OP_EQ == <<"$", "e", "q">>
OP_NE == <<"$", "n", "e">>
OP_LT == <<"$", "l", "t">>
OP_LTE == <<"$", "l", "t", "e">>
OP_GT == <<"$", "g", "t">>
OP_GTE == <<"$", "g", "t", "e">>
OP_IN == <<"$", "i", "n">>
OP_NIN == <<"$", "n", "i", "n">>
OP_LIKE == <<"$", "l", "i", "k", "e">>
OP_BETWEEN == <<"$", "b", "e", "t", "w", "e", "e", "n">>
OP_AND == <<"$", "a", "n", "d">>
OP_OR == <<"$", "o", "r">>

\* operator key -> the SQL comparison it stands for
COMPARISONS_TO_NATIVE == (OP_EQ :> " = ") @@ (OP_NE :> " != ")

NUMERIC_OPERATORS ==
    (OP_LT :> " < ") @@ (OP_LTE :> " <= ") @@ (OP_GT :> " > ") @@ (OP_GTE :> " >= ")

SPECIAL_CASED_OPERATORS == {OP_IN, OP_NIN, OP_LIKE}

BETWEEN_OPERATOR == {OP_BETWEEN}

LOGICAL_OPERATORS == {OP_AND, OP_OR}

SUPPORTED_OPERATORS ==
    DOMAIN COMPARISONS_TO_NATIVE \cup DOMAIN NUMERIC_OPERATORS
        \cup SPECIAL_CASED_OPERATORS \cup BETWEEN_OPERATOR \cup LOGICAL_OPERATORS

(***************************************************************************)
(* Results: a raised exception, or a SQLAlchemy expression.                *)
(***************************************************************************)
\* raise exc(msg); msg is the message text, fragment by fragment
Raise(exc, msg) == [node |-> "raise", exc |-> exc, msg |-> msg]

IsRaise(r) == r.node = "raise"

\* type(v).__name__
TypeName(v) == IF v.t = "None" THEN "NoneType" ELSE v.t

\* type(v) as an f-string prints it
TypeOf(v) == <<"<class '", TypeName(v), "'>">>

\* the first exception a list comprehension meets, else the list itself
FirstRaise(parts) ==
    LET bad == {i \in 1..Len(parts) : IsRaise(parts[i])}
    IN  IF bad = {} THEN [node |-> "list", parts |-> parts]
        ELSE parts[CHOOSE i \in bad : \A j \in bad : i <= j]

\* the return value None of _create_filter_clause
NoClause == [node |-> "None"]

\* what a handler leaves behind: the calls it made (logging, session, container,
\* embeddings) and its return value or exception
Outcome(cs, r) == [calls |-> cs, ret |-> r]

\* a text as one string, as a logging call is given it
RECURSIVE Text(_)
Text(s) == IF s = <<>> THEN "" ELSE Head(s) \o Text(Tail(s))

\* logging.error(message)
LogError(message) == [call |-> "logging.error", message |-> message]

\* logging.info(message)
LogInfo(message) == [call |-> "logging.info", message |-> message]

\* func.JSON_VALUE(self._embedding_store.content_metadata, f"$.{field}")
JSON_VALUE(field) == [node |-> "JSON_VALUE", path |-> <<"$", ".">> \o field]

\* cast(column, Numeric(10, 2))
CastNumeric(column) == [node |-> "cast", arg |-> column]

BindParameter(v) == [node |-> "bind", value |-> v]

\* Operate with the value written into the statement text (literal_column)
\* instead of bound
OperateInlined(sqlop, column, value) ==
    [node |-> "binary", operator |-> sqlop, left |-> column,
     right |-> [node |-> "literal", value |-> value]]

\* operators.lt / le / gt / ge / eq / ne (column, value): the value becomes a
\* bound parameter; SQLAlchemy refuses None, True and False as the operand of
\* an ordering comparison.  The code hands eq and ne a str only.
Operate(sqlop, column, value) ==
    IF value.t \in {"None", "bool"} /\ sqlop \notin {" = ", " != "}
    THEN Raise("ArgumentError",
               <<"Only '=', '!=', 'is_()', 'is_not()', 'is_distinct_from()', 'is_not_distinct_from()' operators can be used with None/True/False">>)
    ELSE [node |-> "binary", operator |-> sqlop, left |-> column,
          right |-> BindParameter(value)]

\* column.in_(values): an expanding bound parameter, one entry per element
In(column, values) ==
    [node |-> "in", negate |-> FALSE, left |-> column, values |-> values]

\* column.nin_(values).  Whether the installed SQLAlchemy gives a column
\* expression an attribute nin_ is the library's matter (sa_has_nin); without
\* it the attribute lookup raises.
Nin(column, values, has_nin) ==
    IF has_nin
    THEN [node |-> "in", negate |-> TRUE, left |-> column, values |-> values]
    ELSE Raise("AttributeError",
               <<"Neither 'Function' object nor 'Comparator' object has an attribute 'nin_'">>)

\* column.like(pattern)
Like(column, pattern) ==
    [node |-> "binary", operator |-> " LIKE ", left |-> column,
     right |-> BindParameter(pattern)]

\* sqlalchemy.and_(*clauses) / sqlalchemy.or_(*clauses); a None among the
\* clauses is coerced to the constant NULL
BoolClause(kind, clauses) ==
    [node |-> kind,
     clauses |-> [i \in 1..Len(clauses) |->
                    IF clauses[i].node = "None" THEN [node |-> "null"]
                    ELSE clauses[i]]]

(***************************************************************************)
(* SQLServer_VectorStore._handle_field_filter                              *)
(***************************************************************************)
\* low, high = filter_value
Unpack2(filter_value) ==
    IF ~IsIterable(filter_value)
    THEN Raise("TypeError",
               <<"cannot unpack non-iterable ", TypeName(filter_value), " object">>)
    ELSE LET xs == Iter(filter_value)
         IN  IF Len(xs) < 2
             THEN Raise("ValueError",
                        <<"not enough values to unpack (expected 2, got ">>
                            \o IntStr(Len(xs)) \o <<")">>)
             ELSE IF Len(xs) > 2
             THEN Raise("ValueError", <<"too many values to unpack (expected 2)">>)
             ELSE [node |-> "pair", low |-> xs[1], high |-> xs[2]]

\* the $between branch
HandleBetween(field, filter_value) ==
    LET pair == Unpack2(filter_value)
    IN  IF IsRaise(pair) THEN pair
        ELSE
        LET column_value == JSON_VALUE(field)
            lower_bound == Operate(NUMERIC_OPERATORS[OP_GTE], column_value, pair.low)
            upper_bound == Operate(NUMERIC_OPERATORS[OP_LTE], column_value, pair.high)
        IN  IF IsRaise(lower_bound) THEN lower_bound
            ELSE IF IsRaise(upper_bound) THEN upper_bound
            ELSE IF filter_value.t # "str"
            THEN BoolClause("and",
                    <<Operate(NUMERIC_OPERATORS[OP_GTE], CastNumeric(column_value), pair.low),
                      Operate(NUMERIC_OPERATORS[OP_LTE], CastNumeric(column_value), pair.high)>>)
            ELSE BoolClause("and", <<lower_bound, upper_bound>>)

\* the $lt / $lte / $gt / $gte branch
HandleNumeric(field, operator, filter_value) ==
    LET numeric_result == JSON_VALUE(field)
        numeric_operation_result ==
            Operate(NUMERIC_OPERATORS[operator], numeric_result, filter_value)
    IN  IF IsRaise(numeric_operation_result) THEN numeric_operation_result
        ELSE IF filter_value.t # "str"
        THEN Operate(NUMERIC_OPERATORS[operator], CastNumeric(numeric_result),
                     filter_value)
        ELSE numeric_operation_result

\* the element check of $in / $nin: isinstance(val, (str, int, float)), which a
\* bool passes, being an int
InElementOk(val) == val.t \in {"str", "int", "float", "bool"}

\* the $in / $nin / $like branch
HandleSpecial(field, operator, filter_value, has_nin) ==
    LET queried_field == JSON_VALUE(field)
        strs(xs) == [i \in 1..Len(xs) |-> PyStr(str(xs[i]))]
    IN  IF operator \in {OP_IN, OP_NIN} /\ ~IsIterable(filter_value)
        THEN Raise("TypeError", <<"'", TypeName(filter_value), "' object is not iterable">>)
        ELSE IF operator \in {OP_IN, OP_NIN}
                /\ \E i \in 1..Len(Iter(filter_value)) : ~InElementOk(Iter(filter_value)[i])
        THEN LET xs == Iter(filter_value)
                 val == xs[CHOOSE i \in 1..Len(xs) :
                             /\ ~InElementOk(xs[i])
                             /\ \A j \in 1..(i - 1) : InElementOk(xs[j])]
             IN  Raise("NotImplementedError",
                       <<"Unsupported type: ">> \o TypeOf(val)
                           \o <<" for value: ">> \o str(val))
        ELSE IF operator = OP_IN THEN In(queried_field, strs(Iter(filter_value)))
        ELSE IF operator = OP_NIN
        THEN Nin(queried_field, strs(Iter(filter_value)), has_nin)
        ELSE IF operator = OP_LIKE THEN Like(queried_field, PyStr(str(filter_value)))
        ELSE Raise("NotImplementedError",
                   <<"Operator is not implemented: ">> \o operator \o <<". ">>)

\* the dispatch on the operator, once operator and filter_value are known
HandleOperator(field, operator, filter_value, has_nin) ==
    IF operator \in DOMAIN COMPARISONS_TO_NATIVE
    THEN Operate(COMPARISONS_TO_NATIVE[operator], JSON_VALUE(field),
                 PyStr(str(filter_value)))
    ELSE IF operator \in DOMAIN NUMERIC_OPERATORS
    THEN HandleNumeric(field, operator, filter_value)
    ELSE IF operator \in BETWEEN_OPERATOR
    THEN HandleBetween(field, filter_value)
    ELSE IF operator \in SPECIAL_CASED_OPERATORS
    THEN HandleSpecial(field, operator, filter_value, has_nin)
    ELSE Raise("NotImplementedError", <<>>)

_handle_field_filter(field, value, has_nin) ==
    IF startswith(field, <<"$">>)
    THEN Raise("ValueError",
               <<"Invalid filter condition. Expected a field but got an operator: ">>
                   \o field)
    ELSE IF ~isidentifier(field)
    THEN Raise("ValueError",
               <<"Invalid field name: ">> \o field \o <<". Expected a valid identifier.">>)
    ELSE IF value.t = "dict"
    THEN IF Len(value.kv) # 1
         THEN Raise("ValueError",
                    <<"Invalid filter condition. Expected a value which is a dictionary with a single key that corresponds to an operator but got a dictionary with ">>
                        \o IntStr(Len(value.kv))
                        \o <<" keys. The first few keys are: ">>
                        \o repr(PyList([i \in 1..(IF Len(value.kv) < 3 THEN Len(value.kv) ELSE 3)
                                           |-> PyStr(value.kv[i][1])])))
         ELSE IF value.kv[1][1] \notin SUPPORTED_OPERATORS
         THEN Raise("ValueError",
                    <<"Invalid operator: ">> \o value.kv[1][1]
                        \o <<". Expected one of ", "{SUPPORTED_OPERATORS}">>)
         ELSE HandleOperator(field, value.kv[1][1], value.kv[1][2], has_nin)
    ELSE HandleOperator(field, OP_EQ, value, has_nin)

(***************************************************************************)
(* SQLServer_VectorStore._create_filter_clause                             *)
(***************************************************************************)
\* Combine without the else branch: an empty list falls through to return None
CombineNoElse(kind, parts) ==
    IF Len(parts) > 1 THEN BoolClause(kind, parts)
    ELSE IF Len(parts) = 1 THEN parts[1]
    ELSE NoClause

\* the $and / $or branch once the children are compiled
Combine(kind, parts) ==
    IF Len(parts) > 1 THEN BoolClause(kind, parts)
    ELSE IF Len(parts) = 1 THEN parts[1]
    ELSE Raise("ValueError",
               <<"Invalid filter condition. Expected a dictionary\nbut got an empty dictionary">>)

\* [self._create_filter_clause(el) for el in value] and what follows it:
\* runs holds the outcome of every child; the comprehension stops at the first
\* child that raises, so only the children up to it have logged
Children(kind, runs) ==
    LET els == FirstRaise([i \in 1..Len(runs) |-> runs[i].ret])
        bad == {i \in 1..Len(runs) : IsRaise(runs[i].ret)}
        ran == IF bad = {} THEN Len(runs) ELSE CHOOSE i \in bad : \A j \in bad : i <= j
        logged == Flatten([i \in 1..ran |-> runs[i].calls])
    IN  IF IsRaise(els) THEN Outcome(logged, els)
        ELSE Outcome(logged, Combine(kind, els.parts))

\* _create_filter_clause(filters): the logging calls it makes and the clause
\* it returns (or the exception it raises)
RECURSIVE _create_filter_clause(_, _)
_create_filter_clause(filters, has_nin) ==
    IF filters.t = "None"
    THEN Outcome(<<LogInfo("No filters are passed, returning")>>, NoClause)
    ELSE IF filters.t # "dict"
    THEN Outcome(<<>>, Raise("ValueError",
               <<"Expected a dict, but got ">> \o TypeOf(filters)
                   \o <<" for value: ", "<class 'filter'>">>))
    ELSE IF Len(filters.kv) = 1
    THEN LET key == filters.kv[1][1]
             value == filters.kv[1][2]
         IN  IF ~startswith(key, <<"$">>)
             THEN Outcome(<<>>, _handle_field_filter(key, value, has_nin))
             ELSE IF lower(key) \notin LOGICAL_OPERATORS
             THEN Outcome(<<>>, Raise("ValueError",
                        <<"Invalid filter condition.\nExpected $and or $or but got: ">>
                            \o key))
             ELSE IF value.t # "list"
             THEN Outcome(<<>>, Raise("ValueError",
                        <<"Expected a list, but got ">> \o TypeOf(value)
                            \o <<" for value: ">> \o str(value)))
             ELSE \* the children run once: their outcomes are the one member
                  CHOOSE outcome \in
                      {Children(IF lower(key) = OP_AND THEN "and" ELSE "or", runs) :
                          runs \in {[i \in 1..Len(value.items) |->
                                       _create_filter_clause(value.items[i], has_nin)]}} :
                      TRUE
    ELSE IF Len(filters.kv) > 1
    THEN LET ops == {i \in 1..Len(filters.kv) : startswith(filters.kv[i][1], <<"$">>)}
         IN  IF ops # {}
             THEN Outcome(<<>>, Raise("ValueError",
                        <<"Invalid filter condition. Expected a field but got: ">>
                            \o filters.kv[CHOOSE i \in ops : \A j \in ops : i <= j][1]))
             ELSE LET els == FirstRaise([i \in 1..Len(filters.kv) |->
                                 _handle_field_filter(filters.kv[i][1],
                                                      filters.kv[i][2], has_nin)])
                  IN  IF IsRaise(els) THEN Outcome(<<>>, els)
                      ELSE Outcome(<<>>, Combine("and", els.parts))
    ELSE Outcome(<<>>, Raise("ValueError", <<"Got an empty dictionary for filters.">>))

(***************************************************************************)
(* The statement text and the bound parameters of a clause, as the         *)
(* docstrings of _create_filter_clause and _handle_field_filter show them  *)
(* for the store of the table langchain_vector_store_tests:                *)
(*   JSON_VALUE(langchain_vector_store_tests.content_metadata,             *)
(*              :JSON_VALUE_1) = :JSON_VALUE_2                             *)
(* Compiled(e, n) is [text, params] with the placeholders numbered from    *)
(* n + 1.                                                                  *)
(***************************************************************************)
\* self.table_name of the store in the docstrings
table_name == "langchain_vector_store_tests"

Placeholder(n) == <<":JSON_VALUE_">> \o IntStr(n)

RECURSIVE Compiled(_, _)
RECURSIVE CompiledList(_, _, _, _)

\* the clauses of an and_/or_ joined by sep; an or_ inside an and_ is grouped
CompiledList(es, n, sep, group) ==
    IF es = <<>> THEN [text |-> <<>>, params |-> <<>>]
    ELSE LET h == Compiled(Head(es), n)
             ht == IF group /\ Head(es).node = "or"
                   THEN <<"(">> \o h.text \o <<")">> ELSE h.text
             r == CompiledList(Tail(es), n + Len(h.params), sep, group)
         IN  [text |-> ht \o (IF Tail(es) = <<>> THEN <<>> ELSE <<sep>>) \o r.text,
              params |-> h.params \o r.params]

Compiled(e, n) ==
    CASE e.node = "JSON_VALUE" ->
            [text |-> <<"JSON_VALUE(", table_name, ".", "content_metadata", ", ">>
                          \o Placeholder(n + 1) \o <<")">>,
             params |-> <<PyStr(e.path)>>]
      [] e.node = "cast" ->
            LET a == Compiled(e.arg, n)
            IN  [text |-> <<"CAST(">> \o a.text \o <<" AS NUMERIC(10, 2))">>,
                 params |-> a.params]
      [] e.node = "bind" ->
            [text |-> Placeholder(n + 1), params |-> <<e.value>>]
      [] e.node = "binary" ->
            LET l == Compiled(e.left, n)
                r == Compiled(e.right, n + Len(l.params))
            IN  [text |-> l.text \o <<e.operator>> \o r.text,
                 params |-> l.params \o r.params]
      [] e.node = "in" ->
            LET l == Compiled(e.left, n)
                m == n + Len(l.params)
            IN  [text |-> l.text
                          \o <<(IF e.negate THEN " NOT IN (" ELSE " IN (")>>
                          \o Join(<<", ">>, [i \in 1..Len(e.values) |->
                                                Placeholder(m + i)])
                          \o <<")">>,
                 params |-> l.params \o e.values]
      [] e.node = "and" -> CompiledList(e.clauses, n, " AND ", TRUE)
      [] e.node = "or" -> CompiledList(e.clauses, n, " OR ", FALSE)
      [] e.node = "null" -> [text |-> <<"NULL">>, params |-> <<>>]
      [] e.node = "literal" -> [text |-> str(e.value), params |-> <<>>]

(***************************************************************************)
(* AzureCosmosDBNoSqlVectorSearch: query construction.                     *)
(*                                                                         *)
(* cfg is the store's configuration: table_alias, text_field,              *)
(* embedding_field (from vector_search_fields) and metadata_key.           *)
(* full_text_rank_filter is None or a list of items                        *)
(* [search_field, search_text]; projection_mapping is None or a dict of    *)
(* key -> alias.                                                           *)
(***************************************************************************)
\* bool(v) as an if statement takes it
Truthy(v) ==
    CASE v.t = "None" -> FALSE
      [] v.t = "bool" -> v.b
      [] v.t = "int" -> v.n # 0
      [] v.t = "float" -> v.i # 0 \/ v.f # 0
      [] v.t = "str" -> v.s # <<>>
      [] v.t \in {"list", "tuple"} -> v.items # <<>>
      [] v.t = "dict" -> v.kv # <<>>

\* FullTextScore({table}.{search_field}, ['term', ...]) for one rank filter item
RankComponent(table, search_item) ==
    <<"FullTextScore(">> \o table \o <<".">> \o search_item.search_field \o <<", [">>
        \o Join(<<", ">>, [i \in 1..Len(split(search_item.search_text)) |->
                             <<"'">> \o split(search_item.search_text)[i] \o <<"'">>])
        \o <<"])">>

RankComponents(table, full_text_rank_filter) ==
    [i \in 1..Len(full_text_rank_filter.items) |->
        RankComponent(table, full_text_rank_filter.items[i])]

\* f"{table}.{search_field} as {search_field}" for each rank filter item
RankProjection(table, full_text_rank_filter) ==
    Join(<<", ">>, [i \in 1..Len(full_text_rank_filter.items) |->
            table \o <<".">> \o full_text_rank_filter.items[i].search_field
                  \o <<" as ">> \o full_text_rank_filter.items[i].search_field])

_generate_projection_fields(cfg, projection_mapping, search_type, embeddings, full_text_rank_filter, with_embedding) ==
    LET table == cfg.table_alias
    IN  IF search_type \in {"full_text_ranking", "hybrid"}
        THEN LET projection ==
                    IF Truthy(projection_mapping)
                    THEN Join(<<", ">>, [i \in 1..Len(projection_mapping.kv) |->
                            table \o <<".">> \o projection_mapping.kv[i][1]
                                  \o <<" as ">> \o projection_mapping.kv[i][2].s])
                    ELSE IF Truthy(full_text_rank_filter)
                    THEN table \o <<".id, ">> \o RankProjection(table, full_text_rank_filter)
                    ELSE table \o <<".id, ">> \o table \o <<".">> \o cfg.text_field \o <<" ">>
             IN  IF search_type = "hybrid"
                 THEN projection
                        \o (IF with_embedding
                            THEN <<", ">> \o table \o <<".">> \o cfg.embedding_field
                                     \o <<" as embedding">>
                            ELSE <<>>)
                        \o <<", VectorDistance(">> \o table \o <<".">> \o cfg.embedding_field
                        \o <<", ">> \o str(embeddings) \o <<") as SimilarityScore">>
                 ELSE projection
        ELSE LET projection ==
                    IF Truthy(projection_mapping)
                    THEN Join(<<", ">>, [i \in 1..Len(projection_mapping.kv) |->
                            table \o <<"[@">> \o projection_mapping.kv[i][1]
                                  \o <<"] as ">> \o projection_mapping.kv[i][2].s])
                    ELSE IF Truthy(full_text_rank_filter)
                    THEN table \o <<".id">> \o RankProjection(table, full_text_rank_filter)
                    ELSE table \o <<".id, ">> \o table \o <<"[@textKey] as text, ">>
                               \o table \o <<"[@metadataKey] as metadata">>
             IN  IF search_type = "vector"
                 THEN projection
                        \o (IF with_embedding
                            THEN <<", ">> \o table \o <<"[@embeddingKey] as embedding">>
                            ELSE <<>>)
                        \o <<", VectorDistance(">> \o table
                        \o <<"[@embeddingKey], ", "@embeddings) as SimilarityScore">>
                 ELSE projection

Parameter(name, value) == [name |-> name, value |-> value]

_build_parameters(cfg, k, search_type, embeddings, projection_mapping) ==
    <<Parameter(<<"@limit">>, PyInt(k))>>
      \o (IF Truthy(projection_mapping)
          THEN [i \in 1..Len(projection_mapping.kv) |->
                    Parameter(<<"@">> \o projection_mapping.kv[i][1],
                              PyStr(projection_mapping.kv[i][1]))]
          ELSE <<Parameter(<<"@textKey">>, PyStr(cfg.text_field)),
                 Parameter(<<"@metadataKey">>, PyStr(cfg.metadata_key))>>)
      \o (IF search_type = "vector"
          THEN <<Parameter(<<"@embeddingKey">>, PyStr(cfg.embedding_field)),
                 Parameter(<<"@embeddings">>, embeddings)>>
          ELSE <<>>)

\* the ORDER BY part; "replace" says the multi-filter ranking branch assigns
\* the query instead of appending to it
OrderClause(cfg, search_type, embeddings, full_text_rank_filter) ==
    LET table == cfg.table_alias
    IN  IF search_type = "full_text_ranking"
        THEN IF full_text_rank_filter.t = "None"
             THEN Raise("ValueError",
                        <<"full_text_rank_filter cannot be None for FULL_TEXT_RANK queries.">>)
             ELSE IF Len(full_text_rank_filter.items) = 1
             THEN [node |-> "order", replace |-> FALSE,
                   text |-> <<" ORDER BY RANK FullTextScore(">> \o table \o <<".">>
                              \o full_text_rank_filter.items[1].search_field
                              \o <<", \n                [">>
                              \o Join(<<", ">>,
                                   [i \in 1..Len(split(full_text_rank_filter.items[1].search_text)) |->
                                      <<"'">> \o split(full_text_rank_filter.items[1].search_text)[i]
                                              \o <<"'">>])
                              \o <<"])">>]
             ELSE [node |-> "order", replace |-> TRUE,
                   text |-> <<" ORDER BY RANK RRF(">>
                              \o Join(<<", ">>, RankComponents(table, full_text_rank_filter))
                              \o <<")">>]
        ELSE IF search_type = "vector"
        THEN [node |-> "order", replace |-> FALSE,
              text |-> <<" ORDER BY VectorDistance(c[@embeddingKey], @embeddings)">>]
        ELSE IF search_type = "hybrid"
        THEN IF full_text_rank_filter.t = "None"
             THEN Raise("ValueError",
                        <<"full_text_rank_filter cannot be None for HYBRID queries.">>)
             ELSE [node |-> "order", replace |-> FALSE,
                   text |-> <<" ORDER BY RANK RRF(">>
                              \o Join(<<", ">>, RankComponents(table, full_text_rank_filter))
                              \o <<", \n            VectorDistance(">> \o table \o <<".">>
                              \o cfg.embedding_field \o <<", ">> \o str(embeddings)
                              \o <<"))">>]
        ELSE [node |-> "order", replace |-> FALSE, text |-> <<>>]

_construct_query(cfg, k, search_type, embeddings, full_text_rank_filter, offset_limit, projection_mapping, with_embedding, where) ==
    LET table == cfg.table_alias
        head ==
            (IF search_type \in {"full_text_ranking", "hybrid"}
             THEN <<"SELECT ">>
                    \o (IF ~Truthy(offset_limit)
                        THEN <<"TOP ">> \o IntStr(k) \o <<" ">> ELSE <<>>)
             ELSE <<"SELECT ">>
                    \o (IF ~Truthy(offset_limit) THEN <<"TOP @limit ">> ELSE <<>>))
              \o _generate_projection_fields(cfg, projection_mapping, search_type,
                                             embeddings, full_text_rank_filter,
                                             with_embedding)
              \o <<" FROM ">> \o table \o <<" ">>
              \o (IF Truthy(where) THEN <<"WHERE ">> \o where.s ELSE <<>>)
        order == OrderClause(cfg, search_type, embeddings, full_text_rank_filter)
    IN  IF IsRaise(order) THEN order
        ELSE [node |-> "query",
              query |-> (IF order.replace THEN order.text ELSE head \o order.text)
                          \o (IF offset_limit.t # "None"
                              THEN <<" ">> \o offset_limit.s ELSE <<>>),
              parameters |->
                  IF search_type \in {"full_text_search", "vector"}
                  THEN _build_parameters(cfg, k, search_type, embeddings,
                                         projection_mapping)
                  ELSE <<>>]

(***************************************************************************)
(* Inputs of _create_filter_clause.                                        *)
(***************************************************************************)
\* most children an $and / $or list is given
MaxChildren == 2

FIELD_ID == <<"i", "d">>
FIELD_B1 == <<"_", "b", "1">>
FIELD_NAME == <<"N", "a", "m", "e">>
FIELD_BAD == <<"f", "i", "e", "l", "d", "$", "b", "a", "d">>

\* a name with a letter outside ASCII, and one with the middle dot U+00B7
FIELD_ACCENT == <<"c", "a", "f", "é">>
FIELD_DOT == <<"a", "·", "b">>

FieldNames ==
    {FIELD_ID, FIELD_B1, FIELD_NAME, FIELD_BAD, FIELD_ACCENT, FIELD_DOT,
     <<"1", "a">>, <<"$", "a">>, <<"a", " ", "b">>, <<"a", "-">>, <<>>}

OP_UNKNOWN == <<"$", "u", "n", "k", "n", "o", "w", "n">>

OperatorKeys ==
    SUPPORTED_OPERATORS \cup {OP_UNKNOWN, <<"$", "E", "Q">>, <<"e", "q">>}

S5 == PyStr(<<"5">>)
S10 == PyStr(<<"1", "0">>)

\* a text with a backslash and a newline
S_ESCAPES == PyStr(<<"a", "\\", "\n">>)

Scalars ==
    {PyNone, PyBool(TRUE), PyInt(5), PyInt(10), PyFloat(2, 5),
     S5, S10, PyStr(<<"a", "b">>), PyStr(<<"a", "%">>), PyStr(<<>>), S_ESCAPES}

Sequences ==
    {<<>>, <<PyInt(5)>>, <<PyInt(5), PyInt(10)>>, <<PyInt(10), PyInt(5)>>,
     <<S5, S10>>, <<S5, PyInt(10)>>, <<PyInt(5), PyInt(10), PyInt(15)>>,
     <<PyStr(<<"a">>), PyInt(5), PyFloat(2, 5)>>,
     <<PyList(<<PyInt(5)>>), PyList(<<PyInt(10)>>)>>,
     <<PyList(<<S_ESCAPES>>)>>,
     <<PyNone, PyInt(5)>>, <<PyInt(5), PyBool(TRUE)>>}

OperandValues ==
    Scalars \cup {PyList(xs) : xs \in Sequences}
            \cup {PyTuple(<<PyInt(5), PyInt(10)>>), PyTuple(<<S5, S10>>),
                  PyTuple(<<PyInt(5)>>)}
            \cup {PyDict(<< <<FIELD_ID, PyInt(5)>>, <<FIELD_B1, PyInt(10)>> >>)}

\* the value of a field: a plain value, or a dict of operator keys
FieldValues ==
    OperandValues
      \cup {PyDict(<< <<o, w>> >>) : o \in OperatorKeys, w \in OperandValues}
      \cup {PyDict(<<>>),
            PyDict(<< <<OP_GT, PyInt(5)>>, <<OP_LT, PyInt(10)>> >>)}

FieldFilters == {PyDict(<< <<f, v>> >>) : f \in FieldNames, v \in FieldValues}

\* dicts of several keys
MultiKeyFilters ==
    {PyDict(<< <<f, v>>, <<g, w>> >>) :
        f \in {FIELD_ID, FIELD_BAD, OP_AND},
        g \in {FIELD_B1, <<"$", "a">>, OP_OR},
        v \in {PyInt(5), PyDict(<< <<OP_LT, PyInt(10)>> >>)},
        w \in {S5, PyDict(<< <<OP_AND, PyList(<<>>)>> >>),
               PyDict(<< <<OP_BETWEEN, PyList(<<S5, S10>>)>> >>)}}

\* what an $and / $or list may hold: field filters, None, a non-dict
ChildSample ==
    {PyDict(<< <<FIELD_ID, PyInt(5)>> >>),
     PyDict(<< <<FIELD_NAME, PyDict(<< <<OP_IN, PyList(<<PyStr(<<"a">>), PyInt(5)>>)>> >>)>> >>),
     PyDict(<< <<FIELD_BAD, PyInt(1)>> >>),
     PyNone,
     PyInt(1)}

LogicalKeys == {OP_AND, OP_OR}

Level1 ==
    {PyDict(<< <<key, PyList(cs)>> >>) :
        key \in LogicalKeys, cs \in SeqsUpTo(ChildSample, MaxChildren)}

\* deeper trees: the children are the samples and the level-1 trees of at most
\* one child
Level2 ==
    {PyDict(<< <<key, PyList(cs)>> >>) :
        key \in LogicalKeys,
        cs \in SeqsUpTo(ChildSample \cup {f \in Level1 : Len(f.kv[1][2].items) <= 1},
                        MaxChildren)}

\* $-keys at the top that are not (lower-case) $and / $or, and lists that are
\* not lists
OtherTopLevel ==
    {PyDict(<< <<key, v>> >>) :
        key \in {OP_AND, OP_OR, <<"$", "A", "N", "D">>, <<"$", "O", "r">>,
                 OP_UNKNOWN, OP_EQ},
        v \in {PyList(<<>>), PyList(<<PyDict(<< <<FIELD_ID, PyInt(5)>> >>)>>),
               PyList(<<PyDict(<< <<FIELD_ID, PyInt(5)>> >>),
                        PyDict(<< <<FIELD_B1, S5>> >>)>>),
               PyStr(<<"a">>), PyNone,
               PyDict(<< <<FIELD_ID, PyInt(5)>> >>)}}
      \cup {PyNone, PyInt(1), PyStr(<<"a">>), PyList(<<>>), PyDict(<<>>)}

FilterInputs ==
    FieldFilters \cup MultiKeyFilters \cup Level1 \cup Level2 \cup OtherTopLevel

(***************************************************************************)
(* Inputs of _construct_query.                                             *)
(***************************************************************************)
\* the fields __init__ sets on a store: search_type is self._search_type and
\* partition_key is cosmos_container_properties["partition_key"]
DefaultConfig ==
    [table_alias |-> <<"c">>, text_field |-> <<"text">>,
     embedding_field |-> <<"embedding">>, metadata_key |-> <<"metadata">>,
     search_type |-> "vector", partition_key |-> PyStr(<<"/", "i", "d">>)]

OtherConfig ==
    [table_alias |-> <<"t">>, text_field |-> <<"description">>,
     embedding_field |-> <<"vec">>, metadata_key |-> <<"meta">>,
     search_type |-> "full_text_search", partition_key |-> PyStr(<<"/", "p", "k">>)]

Configs == {DefaultConfig, OtherConfig}

SearchTypes == {"vector", "full_text_search", "full_text_ranking", "hybrid"}

\* a search_type argument (Optional[str]) that is a str
SearchTypeStr(name) == [t |-> "str", name |-> name]

\* search_type or self._search_type: None and '' give way to the store's own
SearchTypeOr(search_type, _search_type) ==
    IF search_type.t = "None" \/ search_type.name = "" THEN _search_type
    ELSE search_type.name

KValues == {0, 4}

EmbeddingInputs == {PyNone, PyList(<<PyFloat(0, 5), PyFloat(1, 5)>>)}

RankItem(field, text) == [search_field |-> field, search_text |-> text]

ITEM_TITLE == RankItem(<<"t", "i", "t", "l", "e">>, <<"r", "e", "d", " ", "c", "a", "r">>)
\* a search_text whose words a tab separates
ITEM_BODY == RankItem(<<"b", "o", "d", "y">>, <<"b", "i", "k", "e", "\t", "s", "h", "e", "d">>)
\* a search_text that closes the quoted term, and a search_field that is no
\* identifier
ITEM_QUOTE == RankItem(<<"x", ")", "-", "-">>, <<"a", "'", "]", ")", "-", "-">>)

RankFilterInputs ==
    {PyNone, PyList(<<>>), PyList(<<ITEM_TITLE>>), PyList(<<ITEM_TITLE, ITEM_BODY>>),
     PyList(<<ITEM_QUOTE>>)}

OffsetLimitInputs ==
    {PyNone, PyStr(<<>>),
     PyStr(<<"O", "F", "F", "S", "E", "T", " ", "0", " ", "L", "I", "M", "I", "T", " ", "2">>)}

ProjectionInputs ==
    {PyNone, PyDict(<<>>),
     PyDict(<< <<FIELD_ID, PyStr(FIELD_ID)>>,
               <<<<"t", "e", "x", "t">>, PyStr(<<"a", ",", "*">>)>> >>)}

WhereInputs ==
    {PyNone, PyStr(<<>>),
     PyStr(<<"1", "=", "1", " ", "O", "R", " ", "c", ".", "x", "=", "'", "a", "'">>)}

QueryInputs ==
    [cfg : Configs, k : KValues, search_type : SearchTypes,
     embeddings : EmbeddingInputs, full_text_rank_filter : RankFilterInputs,
     offset_limit : OffsetLimitInputs, projection_mapping : ProjectionInputs,
     with_embedding : BOOLEAN, where : WhereInputs]

(***************************************************************************)
(* The state machine.  A call starts from the idle store (op = "init"),     *)
(* runs to its return value or exception in one step, and Return discards  *)
(* its frame: nothing of a call outlives it.  The calls that write to the  *)
(* store item by item or batch by batch (add_texts, the Cosmos DB delete)  *)
(* take one step per write, and pc holds their position between two steps: *)
(* what the store holds there is what any other reader of it sees.         *)
(***************************************************************************)
NoArgs == [none |-> TRUE]

\* the position of a call under way: the collaborator call it makes next
\* (at), the offset it has reached (i) and the ids it has collected (acc)
Position(at, i, acc) == [at |-> at, i |-> i, acc |-> acc]

\* no call is between two steps
Idle == Position("idle", 0, <<>>)

\* ret of a call that has not returned yet
Pending == [node |-> "pending"]

Init ==
    /\ op = "init"
    /\ args = NoArgs
    /\ ret = NoClause
    /\ sa_has_nin \in BOOLEAN
    /\ calls = <<>>
    /\ sql_table = <<>>
    /\ table_exists = TRUE
    /\ container = <<>>
    /\ uuid_count = 0
    /\ pc = Idle

\* SQLServer_VectorStore._create_filter_clause(filters)
CreateFilterClause ==
    /\ op = "init"
    /\ \E filters \in FilterInputs :
        /\ op' = "_create_filter_clause"
        /\ args' = [filters |-> filters]
        /\ \E outcome \in {_create_filter_clause(filters, sa_has_nin)} :
              /\ ret' = outcome.ret
              /\ calls' = outcome.calls
        /\ UNCHANGED <<sa_has_nin, sql_table, table_exists, container, uuid_count, pc>>

\* AzureCosmosDBNoSqlVectorSearch._construct_query(...)
ConstructQuery ==
    /\ op = "init"
    /\ \E a \in QueryInputs :
        /\ op' = "_construct_query"
        /\ args' = a
        /\ ret' = _construct_query(a.cfg, a.k, a.search_type, a.embeddings,
                                   a.full_text_rank_filter, a.offset_limit,
                                   a.projection_mapping, a.with_embedding, a.where)
        /\ UNCHANGED <<sa_has_nin, world>>

\* the call returns (or its exception propagates) and the frame is gone
Return ==
    /\ op # "init"
    /\ pc = Idle
    /\ op' = "init"
    /\ args' = NoArgs
    /\ ret' = NoClause
    /\ calls' = <<>>
    /\ UNCHANGED <<sa_has_nin, sql_table, table_exists, container, uuid_count, pc>>

Next == CreateFilterClause \/ ConstructQuery \/ Return

Spec == Init /\ [][Next]_vars

(***************************************************************************)
(* Reading a filter as a tree, and a clause as an expression.              *)
(***************************************************************************)
Called(name) == op = name

Returned(name) == op = name /\ ~IsRaise(ret)

Raised(name) == op = name /\ IsRaise(ret)

\* a dict {"$and": [...]} or {"$or": [...]}
IsLogicalNode(f) ==
    /\ f.t = "dict"
    /\ Len(f.kv) = 1
    /\ f.kv[1][1] \in LOGICAL_OPERATORS
    /\ f.kv[1][2].t = "list"

\* some $and / $or list of the tree is empty
RECURSIVE HasEmptyConjunction(_)
HasEmptyConjunction(f) ==
    /\ IsLogicalNode(f)
    /\ \/ f.kv[1][2].items = <<>>
       \/ \E i \in 1..Len(f.kv[1][2].items) : HasEmptyConjunction(f.kv[1][2].items[i])

\* the keys of the tree that stand where a field name stands
RECURSIVE FieldKeys(_)
FieldKeys(f) ==
    IF f.t # "dict" THEN {}
    ELSE IF Len(f.kv) = 1 /\ lower(f.kv[1][1]) \in LOGICAL_OPERATORS
    THEN IF f.kv[1][2].t = "list"
         THEN UNION {FieldKeys(f.kv[1][2].items[i]) : i \in 1..Len(f.kv[1][2].items)}
         ELSE {}
    ELSE {f.kv[i][1] : i \in 1..Len(f.kv)}

\* the identifier grammar of a field name: letters (those outside ASCII
\* included), digits, underscore
MatchesGrammar(s) == \A i \in 1..Len(s) : s[i] \in Letters \cup Range(Digits) \cup {"_"}

\* the JSON paths of a clause
RECURSIVE JsonPaths(_)
JsonPaths(e) ==
    CASE e.node = "JSON_VALUE" -> {e.path}
      [] e.node = "cast" -> JsonPaths(e.arg)
      [] e.node = "binary" -> JsonPaths(e.left)
      [] e.node = "in" -> JsonPaths(e.left)
      [] e.node \in {"and", "or"} ->
            UNION {JsonPaths(e.clauses[i]) : i \in 1..Len(e.clauses)}
      [] OTHER -> {}

\* the values a field predicate compares with, as the statement must bind them
LeafBinds(value) ==
    LET o == IF value.t = "dict" THEN value.kv[1][1] ELSE OP_EQ
        w == IF value.t = "dict" THEN value.kv[1][2] ELSE value
    IN  CASE o \in {OP_EQ, OP_NE, OP_LIKE} -> <<PyStr(str(w))>>
          [] o \in {OP_LT, OP_LTE, OP_GT, OP_GTE} -> <<w>>
          [] o = OP_BETWEEN -> Iter(w)
          [] o \in {OP_IN, OP_NIN} -> [i \in 1..Len(Iter(w)) |-> PyStr(str(Iter(w)[i]))]

\* the same over a whole tree, in tree order
RECURSIVE TreeBinds(_)
TreeBinds(f) ==
    IF f.t # "dict" THEN <<>>
    ELSE IF Len(f.kv) = 1 /\ lower(f.kv[1][1]) \in LOGICAL_OPERATORS
    THEN Flatten([i \in 1..Len(f.kv[1][2].items) |-> TreeBinds(f.kv[1][2].items[i])])
    ELSE Flatten([i \in 1..Len(f.kv) |-> LeafBinds(f.kv[i][2])])

\* the fixed text a clause is made of
SqlVocabulary ==
    {"JSON_VALUE(", table_name, ".", "content_metadata", ", ", ")", "(", "CAST(",
     " AS NUMERIC(10, 2))",
     " = ", " != ", " < ", " <= ", " > ", " >= ", " LIKE ", " IN (", " NOT IN (",
     " AND ", " OR ", "NULL"}

\* text is fixed vocabulary and numbered placeholders, nothing else
OnlyVocabularyAndPlaceholders(text) ==
    \A i \in 1..Len(text) :
        \/ text[i] \in SqlVocabulary \cup {":JSON_VALUE_"}
        \/ /\ text[i] \in Range(Digits)
           /\ i > 1
           /\ text[i - 1] \in Range(Digits) \cup {":JSON_VALUE_"}

IsPathParam(p) == p.t = "str" /\ startswith(p.s, <<"$", ".">>)

NotPathParam(p) == ~IsPathParam(p)

(***************************************************************************)
(* C1.  Whenever _create_filter_clause returns a predicate, the statement  *)
(* text of the predicate is fixed SQL vocabulary and placeholders only,    *)
(* and the values the filter compares with are exactly the bound           *)
(* parameters (next to the JSON paths), in tree order: no filter value is  *)
(* in the text.                                                            *)
(***************************************************************************)
C1_ValuesOnlyBound ==
    (Returned("_create_filter_clause") /\ ret.node # "None") =>
        LET c == Compiled(ret, 0)
        IN  /\ OnlyVocabularyAndPlaceholders(c.text)
            /\ SelectSeq(c.params, NotPathParam) = TreeBinds(args.filters)

\* a nested tree with $in, an implicit $eq and a cast comparison was compiled
C1_Witness ==
    /\ Returned("_create_filter_clause")
    /\ args.filters \in Level2
    /\ ret.node = "or"
    /\ Len(Compiled(ret, 0).params) >= 5

(***************************************************************************)
(* C3.  A filter tree with an empty $and or $or list, at any depth, makes  *)
(* _create_filter_clause raise (no predicate, no None); {"$and": []} and   *)
(* {"$or": []} themselves raise the ValueError of the empty conjunction.   *)
(***************************************************************************)
C3_EmptyConjunctionRaises ==
    (Called("_create_filter_clause") /\ HasEmptyConjunction(args.filters)) =>
        /\ IsRaise(ret)
        /\ (args.filters.kv[1][2].items = <<>> =>
                /\ ret.exc = "ValueError"
                /\ ret.msg = <<"Invalid filter condition. Expected a dictionary\nbut got an empty dictionary">>)

\* an empty $or list below an $and was refused
C3_Witness ==
    /\ Raised("_create_filter_clause")
    /\ args.filters = PyDict(<< <<OP_AND, PyList(<<PyDict(<< <<FIELD_ID, PyInt(5)>> >>),
                                                    PyDict(<< <<OP_OR, PyList(<<>>)>> >>)>>)>> >>)
    /\ ret.exc = "ValueError"

(***************************************************************************)
(* C4.  A filter with a field name outside the identifier grammar, where-  *)
(* ever it stands in the tree, makes _create_filter_clause raise; the JSON *)
(* paths of a returned predicate are "$." and a name of the grammar; and   *)
(* {"field$bad": 1} raises a ValueError naming the field.                  *)
(***************************************************************************)
C4_InvalidFieldNameRejected ==
    Called("_create_filter_clause") =>
        /\ (\E f \in FieldKeys(args.filters) : ~MatchesGrammar(f)) => IsRaise(ret)
        /\ ~IsRaise(ret) =>
              \A path \in JsonPaths(ret) :
                  /\ startswith(path, <<"$", ".">>)
                  /\ MatchesGrammar(SubSeq(path, 3, Len(path)))
        /\ (args.filters.t = "dict" /\ Len(args.filters.kv) = 1
              /\ args.filters.kv[1][1] = FIELD_BAD) =>
              /\ IsRaise(ret)
              /\ ret.exc = "ValueError"
              /\ Occurs(FIELD_BAD, ret.msg)

(***************************************************************************)
(* Shapes of a filter and of a query call that the next claims speak of.   *)
(***************************************************************************)
\* {field: {operator: operand}} with a field name the compiler accepts
IsFieldPredicate(f) ==
    /\ f.t = "dict"
    /\ Len(f.kv) = 1
    /\ isidentifier(f.kv[1][1])
    /\ f.kv[1][2].t = "dict"
    /\ Len(f.kv[1][2].kv) = 1

OperatorOf(f) == f.kv[1][2].kv[1][1]

OperandOf(f) == f.kv[1][2].kv[1][2]

\* the ten operators of a field predicate
FieldOperators ==
    {OP_EQ, OP_NE, OP_LT, OP_LTE, OP_GT, OP_GTE, OP_IN, OP_NIN, OP_LIKE, OP_BETWEEN}

IsScalar(v) == v.t \in {"str", "int", "float", "bool"}

\* an iterable of exactly two scalars (a list, a tuple, and also a str of two
\* characters or a dict of two keys)
TwoScalars(w) ==
    /\ IsIterable(w)
    /\ Len(Iter(w)) = 2
    /\ \A i \in 1..2 : IsScalar(Iter(w)[i])

\* a list (or tuple) whose elements are all str, int or float
ListOfStrIntFloat(w) ==
    /\ w.t \in {"list", "tuple"}
    /\ \A i \in 1..Len(w.items) : w.items[i].t \in {"str", "int", "float", "bool"}

\* the clause applies the numeric cast somewhere
RECURSIVE HasCast(_)
HasCast(e) ==
    CASE e.node = "cast" -> TRUE
      [] e.node = "binary" -> HasCast(e.left)
      [] e.node = "in" -> HasCast(e.left)
      [] e.node \in {"and", "or"} -> \E i \in 1..Len(e.clauses) : HasCast(e.clauses[i])
      [] OTHER -> FALSE

\* the texts a caller hands to _construct_query
CallerTexts(a) ==
    (IF a.where.t = "str" THEN {a.where.s} ELSE {})
      \cup (IF a.offset_limit.t = "str" THEN {a.offset_limit.s} ELSE {})
      \cup (IF a.embeddings.t # "None" THEN {str(a.embeddings)} ELSE {})
      \cup (IF a.full_text_rank_filter.t = "list"
            THEN UNION {{a.full_text_rank_filter.items[i].search_field}
                          \cup Range(split(a.full_text_rank_filter.items[i].search_text)) :
                        i \in 1..Len(a.full_text_rank_filter.items)}
            ELSE {})
      \cup (IF a.projection_mapping.t = "dict"
            THEN UNION {{a.projection_mapping.kv[i][1], a.projection_mapping.kv[i][2].s} :
                        i \in 1..Len(a.projection_mapping.kv)}
            ELSE {})

(***************************************************************************)
(* C2.  In every statement _construct_query returns, a text of the caller  *)
(* (the where string, a rank filter's search_field or search_text term, a  *)
(* projection key or alias, the offset_limit string, the printed           *)
(* embedding) that occurs in the statement text is an identifier.          *)
(***************************************************************************)
C2_OnlyIdentifiersInlined ==
    (Returned("_construct_query") /\ args.k > 0
        /\ (args.search_type \in {"vector", "hybrid"} => args.embeddings.t # "None")) =>
        \A x \in CallerTexts(args) :
            (x # <<>> /\ Occurs(x, ret.query)) => isidentifier(x)

(***************************************************************************)
(* C5.  An operator key outside the fixed set makes _create_filter_clause  *)
(* raise an error whose message names the key: a $-key at the top that is  *)
(* not $and / $or, and an operator key of a field predicate that is not    *)
(* one of the ten field operators ($and and $or included).                 *)
(***************************************************************************)
C5_UnsupportedOperatorNamed ==
    Called("_create_filter_clause") =>
        /\ (/\ args.filters.t = "dict"
            /\ Len(args.filters.kv) = 1
            /\ startswith(args.filters.kv[1][1], <<"$">>)
            /\ lower(args.filters.kv[1][1]) \notin LOGICAL_OPERATORS) =>
              (IsRaise(ret) /\ Occurs(args.filters.kv[1][1], ret.msg))
        /\ (IsFieldPredicate(args.filters)
              /\ OperatorOf(args.filters) \notin FieldOperators) =>
              (IsRaise(ret) /\ Occurs(OperatorOf(args.filters), ret.msg))

(***************************************************************************)
(* C6.  A $between whose operand is not two scalars, and a field whose     *)
(* predicate dict has not exactly one key, make _create_filter_clause      *)
(* raise; an accepted $between (low, high) compares >= low and <= high.    *)
(***************************************************************************)
C6_BetweenArity ==
    Called("_create_filter_clause") =>
        /\ (IsFieldPredicate(args.filters) /\ OperatorOf(args.filters) = OP_BETWEEN
              /\ ~TwoScalars(OperandOf(args.filters))) => IsRaise(ret)
        /\ (/\ args.filters.t = "dict"
            /\ Len(args.filters.kv) = 1
            /\ isidentifier(args.filters.kv[1][1])
            /\ args.filters.kv[1][2].t = "dict"
            /\ Len(args.filters.kv[1][2].kv) # 1) => IsRaise(ret)
        /\ (IsFieldPredicate(args.filters) /\ OperatorOf(args.filters) = OP_BETWEEN
              /\ ~IsRaise(ret)) =>
              /\ ret.node = "and"
              /\ ret.clauses[1].operator = " >= "
              /\ ret.clauses[1].right.value = Iter(OperandOf(args.filters))[1]
              /\ ret.clauses[2].operator = " <= "
              /\ ret.clauses[2].right.value = Iter(OperandOf(args.filters))[2]

(***************************************************************************)
(* C7.  $in / $nin with an operand that is not a list of str, int or float *)
(* elements make _create_filter_clause raise, and an accepted list is      *)
(* compared as the list of its stringified elements.                       *)
(***************************************************************************)
C7_InOperandChecked ==
    (Called("_create_filter_clause") /\ IsFieldPredicate(args.filters)
        /\ OperatorOf(args.filters) \in {OP_IN, OP_NIN}) =>
        /\ ~ListOfStrIntFloat(OperandOf(args.filters)) => IsRaise(ret)
        /\ ~IsRaise(ret) =>
              /\ ret.node = "in"
              /\ ret.values = [i \in 1..Len(Iter(OperandOf(args.filters))) |->
                                  PyStr(str(Iter(OperandOf(args.filters))[i]))]

(***************************************************************************)
(* C8.  A compiled $between over two string bounds applies no numeric      *)
(* cast, and over two numeric bounds casts the column in both comparisons. *)
(***************************************************************************)
C8_BetweenCastRule ==
    (Returned("_create_filter_clause") /\ IsFieldPredicate(args.filters)
        /\ OperatorOf(args.filters) = OP_BETWEEN
        /\ OperandOf(args.filters).t \in {"list", "tuple"}) =>
        LET w == OperandOf(args.filters).items
        IN  /\ (\A i \in 1..2 : w[i].t = "str") => ~HasCast(ret)
            /\ (\A i \in 1..2 : w[i].t \in {"int", "float"}) =>
                  \A i \in 1..2 : ret.clauses[i].left.node = "cast"

(***************************************************************************)
(* C9.  _construct_query for full_text_ranking or hybrid with no rank      *)
(* filter (None or an empty list) raises and returns no statement.         *)
(***************************************************************************)
C9_MissingRankFilter ==
    (Called("_construct_query")
        /\ args.search_type \in {"full_text_ranking", "hybrid"}
        /\ args.k > 0
        /\ (args.search_type = "hybrid" => args.embeddings.t # "None")
        /\ ~Truthy(args.full_text_rank_filter)) => IsRaise(ret)

(***************************************************************************)
(* C10.  _construct_query for vector or hybrid with no query embedding     *)
(* raises and returns neither a statement nor a parameter list.            *)
(***************************************************************************)
C10_MissingEmbedding ==
    (Called("_construct_query")
        /\ args.search_type \in {"vector", "hybrid"}
        /\ args.k > 0
        /\ (args.search_type = "hybrid" => Truthy(args.full_text_rank_filter))
        /\ args.embeddings.t = "None") => IsRaise(ret)

(***************************************************************************)
(* Collaborators.  A collaborator call is recorded in calls as a record    *)
(* [call |-> name, ...]; what the collaborator answers is the              *)
(* environment's choice: the rows or items of a result set, or a failure.  *)
(***************************************************************************)
\* the answer of a statement execution: a result set
Rows(rs) == [t |-> "rows", rows |-> rs]

\* the answer of a collaborator call: an exception of class exc
Failure(exc) == [t |-> "error", exc |-> exc]

\* a normal return value
Value(v) == [node |-> "value", value |-> v]

\* langchain_core.documents.Document(page_content=..., metadata=...)
Document(page_content, metadata) ==
    [page_content |-> page_content, metadata |-> metadata]

INVALID_INPUT_ERROR_MESSAGE == "Input is not valid."

(***************************************************************************)
(* SQLServer_VectorStore: search and result mapping.                       *)
(*                                                                         *)
(* A result row is None or a row with the columns EmbeddingStore (the      *)
(* mapped entity, or None), distance (or None) and, in a marginal          *)
(* relevance search, the embeddings column as column 0.                    *)
(***************************************************************************)
\* the entity of one table row
EmbeddingStore(custom_id, content, content_metadata) ==
    [custom_id |-> custom_id, content |-> content,
     content_metadata |-> content_metadata]

\* one row of a result set
Row(embeddings, entity, distance) ==
    [t |-> "row", embeddings |-> embeddings, EmbeddingStore |-> entity,
     distance |-> distance]

\* the condition under which _docs_and_scores_from_result maps a row
RowIsValid(result) ==
    /\ result.t # "None"
    /\ result.EmbeddingStore # PyNone
    /\ result.distance # PyNone

\* _docs_and_scores_from_result with the score left at 0.0
_docs_and_scores_without_distance(results) ==
    LET valid == SelectSeq(results, RowIsValid)
    IN  [i \in 1..Len(valid) |->
            <<Document(valid[i].EmbeddingStore.content,
                       valid[i].EmbeddingStore.content_metadata),
              PyFloat(0, 0)>>]

\* the (Document, distance) pairs of the valid rows, in row order
_docs_and_scores_from_result(results) ==
    LET valid == SelectSeq(results, RowIsValid)
    IN  [i \in 1..Len(valid) |->
            <<Document(valid[i].EmbeddingStore.content,
                       valid[i].EmbeddingStore.content_metadata),
              valid[i].distance>>]

\* one logging.error per row that is not mapped
SkipLog(results) ==
    LET NotValid(r) == ~RowIsValid(r)
        skipped == SelectSeq(results, NotValid)
    IN  [i \in 1..Len(skipped) |-> LogError(INVALID_INPUT_ERROR_MESSAGE)]

\* [doc for doc, _ in results if doc is not None]
_docs_from_result(results) ==
    LET kept == SelectSeq(results, LAMBDA pair : pair[1] # PyNone)
    IN  [i \in 1..Len(kept) |-> kept[i][1]]

\* the select statement _search_store builds
SelectStatement(embedding, k, filter_by, marginal_relevance) ==
    [stmt |-> "select",
     columns |-> IF marginal_relevance
                 THEN <<"cast (embeddings as NVARCHAR(MAX))", "distance",
                        "EmbeddingStore">>
                 ELSE <<"EmbeddingStore", "distance">>,
     embedding |-> embedding,
     filter_by |-> filter_by,
     order_by |-> "distance ASC",
     limit |-> k]

\* session.execute(statement) / session.query(...).all()
Execute(statement) == [call |-> "session.execute", statement |-> statement]

\* outcome, with call made before it
CallFirst(call, outcome) == Outcome(<<call>> \o outcome.calls, outcome.ret)

\* the body of _search_store after the filter is compiled: compiled is the
\* outcome of _create_filter_clause(filter)
Searched(compiled, embedding, k, marginal_relevance, answer) ==
    IF IsRaise(compiled.ret) THEN compiled
    ELSE IF answer.t = "rows"
    THEN Outcome(Append(compiled.calls,
                        Execute(SelectStatement(
                            embedding, k,
                            IF compiled.ret = NoClause THEN <<>> ELSE <<compiled.ret>>,
                            marginal_relevance))),
                 Value(answer.rows))
    ELSE IF answer.exc = "ProgrammingError"
    THEN Outcome(compiled.calls
                     \o <<Execute(SelectStatement(
                              embedding, k,
                              IF compiled.ret = NoClause THEN <<>> ELSE <<compiled.ret>>,
                              marginal_relevance)),
                          LogError("An error has occurred during the search.\n "
                                       \o "cause of " \o answer.exc)>>,
                 Raise("Exception", <<"cause of ", answer.exc>>))
    ELSE Outcome(Append(compiled.calls,
                        Execute(SelectStatement(
                            embedding, k,
                            IF compiled.ret = NoClause THEN <<>> ELSE <<compiled.ret>>,
                            marginal_relevance))),
                 Raise(answer.exc, <<answer.exc>>))

\* _search_store with the statement executed before the filter is compiled
_search_store_execute_first(embedding, k, filter, marginal_relevance, has_nin, answer) ==
    CallFirst(Execute(SelectStatement(embedding, k, <<>>, marginal_relevance)),
              Searched(_create_filter_clause(filter, has_nin), embedding, k,
                       marginal_relevance, answer))

\* _search_store(embedding, k, filter, marginal_relevance); answer is what the
\* database answers to the statement
_search_store(embedding, k, filter, marginal_relevance, has_nin, answer) ==
    Searched(_create_filter_clause(filter, has_nin), embedding, k, marginal_relevance,
             answer)

\* similarity_search_by_vector_with_score(embedding, k, **kwargs)
similarity_search_by_vector_with_score(embedding, k, filter, has_nin, answer) ==
    LET Mapped(similar_docs) ==
            IF IsRaise(similar_docs.ret) THEN similar_docs
            ELSE Outcome(similar_docs.calls \o SkipLog(similar_docs.ret.value),
                         Value(_docs_and_scores_from_result(similar_docs.ret.value)))
    IN  \* _search_store runs once: its result is the one member of the set
        CHOOSE outcome \in
            {Mapped(similar_docs) :
                similar_docs \in {_search_store(embedding, k, filter, FALSE, has_nin,
                                                answer)}} : TRUE

(***************************************************************************)
(* Maximal marginal relevance.                                             *)
(*                                                                         *)
(* Neither store holds the reranker it calls: the SQL Server store imports *)
(* maximal_marginal_relevance from langchain_core.vectorstores.utils, the  *)
(* Cosmos DB store from langchain_azure_ai.vectorstores.utils, and neither *)
(* module is among the sources.  The reranker of both is therefore the     *)
(* DiversityReranker of the specification (section 4.4): cosineSimilarity, *)
(* mmrScore, the greedy loop and select below follow its text, and what    *)
(* the stores do with the selection follows their code.                    *)
(*                                                                         *)
(* Embeddings are integer vectors whose norm is an integer (0, 1 or 5), so *)
(* that every cosine similarity is a multiple of 1/25 and is held exactly  *)
(* as an integer number of 25ths.  lambda_mult is a float with one decimal *)
(* digit, held exactly as a number of tenths; a score is then an integer   *)
(* number of 250ths.                                                       *)
(***************************************************************************)
RECURSIVE Dot(_, _)
Dot(a, b) == IF a = <<>> THEN 0 ELSE Head(a) * Head(b) + Dot(Tail(a), Tail(b))

\* the Euclidean norm of a vector whose norm is an integer
Norm(a) == CHOOSE n \in 0..Dot(a, a) : n * n = Dot(a, a)

\* cosineSimilarity (spec 4.4) in 25ths; with a zero vector it is 0
cosine_similarity(a, b) ==
    IF Norm(a) = 0 \/ Norm(b) = 0 THEN 0
    ELSE (25 * Dot(a, b)) \div (Norm(a) * Norm(b))

\* a float with one decimal digit, in tenths
Tenths(x) == 10 * x.i + x.f

Min(a, b) == IF a <= b THEN a ELSE b

\* the largest member of a non-empty set of integers
SetMax(S) == CHOOSE m \in S : \A x \in S : x <= m

\* the first position of remaining at which score is largest (a later position
\* replaces the best one only if its score is strictly greater)
ArgMax(remaining, score) ==
    CHOOSE i \in remaining :
        \A j \in remaining : score[j] < score[i] \/ (score[j] = score[i] /\ i <= j)

\* mmrScore (spec 4.4 step 3) of candidate i (a 0-based index) against the
\* selected candidates idxs: lambda * relevance - (1 - lambda) * penalty, in
\* 250ths, the penalty being the largest similarity to a selected candidate
EquationScore(query_embedding, embedding_list, lambda_mult, idxs, i) ==
    LET query_score == cosine_similarity(query_embedding, embedding_list[i + 1])
        redundant_score ==
            SetMax({cosine_similarity(embedding_list[i + 1], embedding_list[idxs[j] + 1]) :
                        j \in 1..Len(idxs)})
    IN  Tenths(lambda_mult) * query_score - (10 - Tenths(lambda_mult)) * redundant_score

\* the greedy loop of select (spec 4.4 steps 1 to 4) once a candidate is
\* selected: the arg max of mmrScore over the remaining candidates, the lowest
\* index winning a tie, moves to the selected ones until there are want of them
RECURSIVE MmrLoopRepeating(_, _, _, _, _)
MmrLoopRepeating(query_embedding, embedding_list, lambda_mult, want, idxs) ==
    IF Len(idxs) >= want THEN idxs
    ELSE LET all == 0..(Len(embedding_list) - 1)
             score == [i \in all |-> EquationScore(query_embedding, embedding_list,
                                                   lambda_mult, idxs, i)]
         IN  MmrLoopRepeating(query_embedding, embedding_list, lambda_mult, want,
                              Append(idxs, ArgMax(all, score)))

RECURSIVE MmrLoop(_, _, _, _, _)
MmrLoop(query_embedding, embedding_list, lambda_mult, want, idxs) ==
    IF Len(idxs) >= want THEN idxs
    ELSE LET remaining == (0..(Len(embedding_list) - 1)) \ Range(idxs)
             score == [i \in remaining |->
                          EquationScore(query_embedding, embedding_list,
                                        lambda_mult, idxs, i)]
         IN  MmrLoop(query_embedding, embedding_list, lambda_mult, want,
                     Append(idxs, ArgMax(remaining, score)))

\* mmrScore of candidate i with nothing selected yet: the penalty is 0
FirstScore(query_embedding, embedding_list, lambda_mult, i) ==
    Tenths(lambda_mult) * cosine_similarity(query_embedding, embedding_list[i + 1])

\* DiversityReranker.select (spec 4.4), which stands for the
\* maximal_marginal_relevance either store calls: every index, the first one
\* included, is the arg max of mmrScore over the remaining candidates, the
\* lowest index winning a tie; no candidate gives no index
select(query_embedding, embedding_list, lambda_mult, k) ==
    IF Min(k, Len(embedding_list)) <= 0 THEN <<>>
    ELSE LET score == [i \in 0..(Len(embedding_list) - 1) |->
                          FirstScore(query_embedding, embedding_list, lambda_mult, i)]
         IN  MmrLoop(query_embedding, embedding_list, lambda_mult,
                     Min(k, Len(embedding_list)),
                     <<ArgMax(0..(Len(embedding_list) - 1), score)>>)

\* the reranker call as it is recorded among the collaborator calls
Rerank(embedding_list, k, idxs) ==
    [call |-> "maximal_marginal_relevance", candidates |-> Len(embedding_list),
     k |-> k, selected |-> idxs]

\* the vector a Python list of ints denotes (np.array(embedding))
VectorOf(embedding) == [i \in 1..Len(embedding.items) |-> embedding.items[i].n]

\* [value for idx, value in enumerate(results_as_docs) if idx in mmr_selects]
DocsAtSelectedPositions(results_as_docs, mmr_selects) ==
    LET positions == SelectSeq([i \in 1..Len(results_as_docs) |-> i - 1],
                               LAMBDA idx : idx \in Range(mmr_selects))
    IN  [i \in 1..Len(positions) |-> results_as_docs[positions[i] + 1]]

\* SQLServer_VectorStore.max_marginal_relevance_search_by_vector
sql_max_marginal_relevance_search_by_vector(embedding, k, fetch_k, lambda_mult, filter, has_nin, answer) ==
    LET Reranked(results) ==
            LET rows == results.ret.value
                embedding_list == [i \in 1..Len(rows) |-> rows[i].embeddings]
                mmr_selects == select(VectorOf(embedding), embedding_list, lambda_mult, k)
                results_as_docs == _docs_from_result(_docs_and_scores_from_result(rows))
            IN  IF IsRaise(results.ret) THEN results
                ELSE IF \E i \in 1..Len(rows) : rows[i].t = "None"
                THEN Outcome(results.calls,
                             Raise("TypeError",
                                   <<"'NoneType' object is not subscriptable">>))
                ELSE Outcome(results.calls \o <<Rerank(embedding_list, k, mmr_selects)>>
                                 \o SkipLog(rows),
                             Value(DocsAtSelectedPositions(results_as_docs, mmr_selects)))
    IN  \* _search_store runs once: its result is the one member of the set
        CHOOSE outcome \in
            {Reranked(results) :
                results \in {_search_store(embedding, fetch_k, filter, TRUE, has_nin,
                                            answer)}} : TRUE

(***************************************************************************)
(* Python dicts as key/value sequences.                                    *)
(***************************************************************************)
DictHas(d, key) == \E i \in 1..Len(d.kv) : d.kv[i][1] = key

\* d[key], for a key d has
DictGet(d, key) == d.kv[CHOOSE i \in 1..Len(d.kv) : d.kv[i][1] = key][2]

\* d[key] = value
DictSet(d, key, value) ==
    IF DictHas(d, key)
    THEN PyDict([i \in 1..Len(d.kv) |->
                    IF d.kv[i][1] = key THEN <<key, value>> ELSE d.kv[i]])
    ELSE PyDict(Append(d.kv, <<key, value>>))

\* d after d.pop(key, default)
DictWithout(d, key) == PyDict(SelectSeq(d.kv, LAMBDA e : e[1] # key))

KeyError(key) == Raise("KeyError", StrRepr(key))

(***************************************************************************)
(* AzureCosmosDBNoSqlVectorSearch: running a query and mapping its items.  *)
(***************************************************************************)
KEY_ID == <<"i", "d">>
KEY_SCORE == <<"S", "i", "m", "i", "l", "a", "r", "i", "t", "y", "S", "c", "o", "r", "e">>

\* container.query_items(query=..., parameters=..., enable_cross_partition_query=True)
QueryItems(query, parameters) ==
    [call |-> "container.query_items", query |-> query, parameters |-> parameters]

\* the loop over projection_mapping.items(): metadata[alias] = item[alias]
RECURSIVE ProjectInto(_, _, _, _)
ProjectInto(mapping, item, metadata, text_field) ==
    IF mapping = <<>> THEN Value(metadata)
    ELSE LET key == Head(mapping)[1]
             alias == Head(mapping)[2].s
         IN  IF key = text_field
             THEN ProjectInto(Tail(mapping), item, metadata, text_field)
             ELSE IF ~DictHas(item, alias) THEN KeyError(alias)
             ELSE ProjectInto(Tail(mapping), item,
                              DictSet(metadata, alias, DictGet(item, alias)),
                              text_field)

\* the body of the loop of _execute_query for one item: the (Document, score)
\* pair, or the KeyError of the first key the item lacks
MapItem(cfg, raw_item, search_type, with_embedding, projection_mapping) ==
    LET text_field == cfg.text_field
        embedding_field == cfg.embedding_field
        popped == IF DictHas(raw_item, cfg.metadata_key)
                  THEN DictGet(raw_item, cfg.metadata_key) ELSE PyDict(<<>>)
        item == DictWithout(raw_item, cfg.metadata_key)
        projected ==
            IF Truthy(projection_mapping)
            THEN ProjectInto(projection_mapping.kv, item, popped, text_field)
            ELSE IF DictHas(item, KEY_ID)
            THEN Value(DictSet(popped, KEY_ID, DictGet(item, KEY_ID)))
            ELSE KeyError(KEY_ID)
        scored == search_type = "vector" \/ search_type = "hybrid"
    IN  IF ~DictHas(raw_item, text_field) THEN KeyError(text_field)
        ELSE IF IsRaise(projected) THEN projected
        ELSE IF scored /\ ~DictHas(item, KEY_SCORE) THEN KeyError(KEY_SCORE)
        ELSE IF scored /\ with_embedding /\ ~DictHas(item, embedding_field)
        THEN KeyError(embedding_field)
        ELSE Value(<<Document(DictGet(raw_item, text_field),
                              IF scored /\ with_embedding
                              THEN DictSet(projected.value, embedding_field,
                                           DictGet(item, embedding_field))
                              ELSE projected.value),
                     IF scored THEN DictGet(item, KEY_SCORE) ELSE PyFloat(0, 0)>>)

\* _execute_query(query, search_type, parameters, with_embedding,
\* projection_mapping); answer is what the container answers to the query
_execute_query(cfg, query, search_type, parameters, with_embedding, projection_mapping, answer) ==
    LET sent == <<QueryItems(query, parameters)>>
        mapped == IF answer.t = "rows"
                  THEN [i \in 1..Len(answer.rows) |->
                           MapItem(cfg, answer.rows[i], search_type, with_embedding,
                                   projection_mapping)]
                  ELSE <<>>
    IN  IF answer.t # "rows" THEN Outcome(sent, Raise(answer.exc, <<answer.exc>>))
        ELSE IF \E i \in 1..Len(mapped) : IsRaise(mapped[i])
        THEN Outcome(sent, FirstRaise(mapped))
        ELSE Outcome(sent, Value([i \in 1..Len(mapped) |-> mapped[i].value]))

\* query, parameters = self._construct_query(...); return self._execute_query(...)
ConstructThenExecute(cfg, constructed, search_type, with_embedding, projection_mapping, answer) ==
    IF IsRaise(constructed) THEN Outcome(<<>>, constructed)
    ELSE _execute_query(cfg, constructed.query, search_type, constructed.parameters,
                        with_embedding, projection_mapping, answer)

vector_search_with_score(cfg, search_type, embeddings, k, with_embedding, offset_limit, projection_mapping, where, answer) ==
    ConstructThenExecute(cfg,
        _construct_query(cfg, k, search_type, embeddings, PyNone, offset_limit,
                         projection_mapping, with_embedding, where),
        search_type, with_embedding, projection_mapping, answer)

full_text_search(cfg, search_type, k, offset_limit, projection_mapping, where, answer) ==
    ConstructThenExecute(cfg,
        _construct_query(cfg, k, search_type, PyNone, PyNone, offset_limit,
                         projection_mapping, FALSE, where),
        search_type, FALSE, projection_mapping, answer)

full_text_ranking(cfg, search_type, k, offset_limit, projection_mapping, full_text_rank_filter, where, answer) ==
    ConstructThenExecute(cfg,
        _construct_query(cfg, k, search_type, PyNone, full_text_rank_filter,
                         offset_limit, projection_mapping, FALSE, where),
        search_type, FALSE, projection_mapping, answer)

\* _construct_query is not given with_embedding and takes its default False;
\* _execute_query is given the caller's with_embedding
hybrid_search_with_score(cfg, search_type, embeddings, k, with_embedding, offset_limit, projection_mapping, full_text_rank_filter, where, answer) ==
    ConstructThenExecute(cfg,
        _construct_query(cfg, k, search_type, embeddings, full_text_rank_filter,
                         offset_limit, projection_mapping, FALSE, where),
        search_type, with_embedding, projection_mapping, answer)

\* self._embedding.embed_query(query)
EmbedQuery(query) == [call |-> "embed_query", text |-> query]

\* what the embedding function answers to embed_query
QUERY_EMBEDDING == PyList(<<PyInt(1), PyInt(0)>>)

\* a handler that makes the collaborator calls before and then runs rest
After(before, rest) == Outcome(before \o rest.calls, rest.ret)

\* the branches of similarity_search_with_score on the search type in use:
\* docs_and_scores stays [] for a search type none of the branches names
SearchByType(cfg, query, k, with_embedding, search_type, offset_limit, full_text_rank_filter, projection_mapping, where, answer) ==
    IF search_type = "vector"
    THEN After(<<EmbedQuery(query)>>,
               vector_search_with_score(cfg, search_type, QUERY_EMBEDDING, k,
                                        with_embedding, offset_limit,
                                        projection_mapping, where, answer))
    ELSE IF search_type = "full_text_search"
    THEN full_text_search(cfg, search_type, k, offset_limit, projection_mapping,
                          where, answer)
    ELSE IF search_type = "full_text_ranking"
    THEN full_text_ranking(cfg, search_type, k, offset_limit, projection_mapping,
                           full_text_rank_filter, where, answer)
    ELSE IF search_type = "hybrid"
    THEN After(<<EmbedQuery(query)>>,
               hybrid_search_with_score(cfg, search_type, QUERY_EMBEDDING, k,
                                        with_embedding, offset_limit,
                                        projection_mapping, full_text_rank_filter,
                                        where, answer))
    ELSE Outcome(<<>>, Value(<<>>))

\* similarity_search_with_score(query, k, with_embedding, search_type, ...):
\* search_type = search_type or self._search_type, then the branch of that type
similarity_search_with_score(cfg, query, k, with_embedding, search_type, offset_limit, full_text_rank_filter, projection_mapping, where, answer) ==
    SearchByType(cfg, query, k, with_embedding,
                 SearchTypeOr(search_type, cfg.search_type), offset_limit,
                 full_text_rank_filter, projection_mapping, where, answer)

\* AzureCosmosDBNoSqlVectorSearch.max_marginal_relevance_search_by_vector
cosmos_max_marginal_relevance_search_by_vector(cfg, embedding, k, fetch_k, lambda_mult, search_type, with_embedding, where, answer) ==
    LET docs == vector_search_with_score(cfg, search_type, embedding, fetch_k,
                                         with_embedding, PyNone, PyNone, where, answer)
        found == docs.ret.value
        embedding_list ==
            [i \in 1..Len(found) |->
                VectorOf(DictGet(found[i][1].metadata, cfg.embedding_field))]
        mmr_doc_indexes == select(VectorOf(embedding), embedding_list, lambda_mult, k)
    IN  IF IsRaise(docs.ret) THEN docs
        ELSE IF \E i \in 1..Len(found) :
                    ~DictHas(found[i][1].metadata, cfg.embedding_field)
        THEN Outcome(docs.calls, KeyError(cfg.embedding_field))
        ELSE Outcome(Append(docs.calls, Rerank(embedding_list, k, mmr_doc_indexes)),
                     Value([i \in 1..Len(mmr_doc_indexes) |->
                               found[mmr_doc_indexes[i] + 1][1]]))

(***************************************************************************)
(* Inputs of the search operations, and what the stores answer.            *)
(***************************************************************************)
\* most rows or items a store answers with
MaxRows == 3

SearchFilters ==
    {PyNone,
     PyDict(<< <<FIELD_ID, PyInt(5)>> >>),
     PyDict(<< <<FIELD_BAD, PyInt(5)>> >>),
     PyDict(<< <<OP_AND, PyList(<<>>)>> >>),
     PyDict(<< <<FIELD_ID, PyDict(<< <<OP_IN, PyInt(5)>> >>)>> >>),
     PyDict(<< <<FIELD_ID, PyDict(<< <<OP_NIN, PyList(<<PyInt(5)>>)>> >>)>> >>)}

\* embeddings whose norm is an integer
VEC_X == <<1, 0>>
VEC_Y == <<0, 1>>
VEC_XY == <<4, 3>>
VEC_ZERO == <<0, 0>>

ROW_A == Row(VEC_Y, EmbeddingStore(<<"1">>, <<"a">>, PyDict(<<>>)), PyFloat(1, 0))
ROW_B == Row(VEC_X, EmbeddingStore(<<"2">>, <<"b">>, PyDict(<<>>)), PyFloat(0, 0))
ROW_C == Row(VEC_XY, EmbeddingStore(<<"3">>, <<"c">>, PyDict(<<>>)), PyFloat(0, 2))
ROW_NO_ENTITY == Row(VEC_ZERO, PyNone, PyFloat(0, 5))
ROW_NO_DISTANCE == Row(VEC_X, EmbeddingStore(<<"4">>, <<"d">>, PyDict(<<>>)), PyNone)

RowSample == {ROW_A, ROW_B, ROW_C, ROW_NO_ENTITY, ROW_NO_DISTANCE, PyNone}

\* the exceptions a statement execution fails with
ExecutionErrors == {"ProgrammingError", "OperationalError"}

\* a database that honours a non-negative limit answers with at most that many
\* rows
SqlAnswers(limit) ==
    {Rows(rs) : rs \in SeqsUpTo(RowSample, IF limit < 0 THEN 0 ELSE Min(limit, MaxRows))}
        \cup {Failure(e) : e \in ExecutionErrors}

LambdaValues == {PyFloat(0, 0), PyFloat(0, 5), PyFloat(1, 0)}

\* k of an MMR search: how many of the fetched candidates to select
MmrKValues == 0..MaxRows

\* the column names of the default projection: "... as text", "... as metadata",
\* "... as embedding"
COLUMN_TEXT == <<"text">>
COLUMN_METADATA == <<"metadata">>
COLUMN_EMBEDDING == <<"embedding">>

\* an item of a query answer
Item(id, text, parts) ==
    PyDict(<< <<KEY_ID, PyStr(id)>>, <<COLUMN_TEXT, PyStr(text)>> >> \o parts)

ItemSample ==
    LET meta == <<COLUMN_METADATA, PyDict(<<>>)>>
        score(f) == <<KEY_SCORE, PyFloat(0, f)>>
        emb(v) == <<COLUMN_EMBEDDING, PyList(<<PyInt(v[1]), PyInt(v[2])>>)>>
    IN  {Item(<<"1">>, <<"a">>, <<meta, score(9), emb(VEC_Y)>>),
         Item(<<"2">>, <<"b">>, <<score(8), emb(VEC_X)>>),
         Item(<<"3">>, <<"c">>, <<meta, score(7)>>),
         Item(<<"4">>, <<"d">>, <<meta>>),
         PyDict(<< <<KEY_ID, PyStr(<<"5">>)>>, meta, score(5), emb(VEC_XY)>>)}

CosmosErrors == {"CosmosHttpResponseError"}

CosmosAnswers(limit) ==
    {Rows(rs) : rs \in SeqsUpTo(ItemSample, IF limit < 0 THEN 0 ELSE Min(limit, MaxRows))}
        \cup {Failure(e) : e \in CosmosErrors}

SearchOffsetLimits ==
    {PyNone,
     PyStr(<<"O", "F", "F", "S", "E", "T", " ", "0", " ", "L", "I", "M", "I", "T", " ", "2">>)}

\* the cap the statement puts on the answer
CosmosCap(k, offset_limit) == IF Truthy(offset_limit) THEN 2 ELSE k

SearchRankFilters == {PyNone, PyList(<<>>), PyList(<<ITEM_TITLE>>)}

SearchProjections ==
    {PyNone,
     PyDict(<< <<FIELD_ID, PyStr(FIELD_ID)>>,
               <<COLUMN_TEXT, PyStr(COLUMN_TEXT)>> >>)}

QUERY_TEXT == <<"r", "e", "d">>

\* fetch_k of an MMR search: the cap of the candidate query (20 by default)
FetchKValues == {0, 20}

SqlSearchInputs ==
    UNION {[embedding : {QUERY_EMBEDDING}, k : {k}, filter : SearchFilters,
            answer : SqlAnswers(k)] : k \in KValues}

SqlMmrInputs ==
    UNION {[embedding : {QUERY_EMBEDDING}, k : MmrKValues, fetch_k : {fetch_k},
            lambda_mult : LambdaValues,
            filter : {PyNone, PyDict(<< <<OP_AND, PyList(<<>>)>> >>)},
            answer : SqlAnswers(fetch_k)] : fetch_k \in FetchKValues}

\* stores with the default field names and each search type of their own
SearchStores == {[DefaultConfig EXCEPT !.search_type = t] : t \in SearchTypes}

\* a store and the search_type argument of a search on it: a named type on a
\* store of either configuration, or None or '' on a store of each type
StoreAndSearchType ==
    (Configs \X {SearchTypeStr(t) : t \in SearchTypes})
        \cup (SearchStores \X {PyNone, SearchTypeStr("")})

CosmosSearchInputs ==
    UNION {[cfg : {on[1]}, query : {QUERY_TEXT}, k : {k},
            with_embedding : BOOLEAN, search_type : {on[2]},
            offset_limit : {offset_limit},
            full_text_rank_filter : SearchRankFilters,
            projection_mapping : SearchProjections, where : {PyNone},
            answer : CosmosAnswers(CosmosCap(k, offset_limit))] :
           on \in StoreAndSearchType, k \in KValues,
           offset_limit \in SearchOffsetLimits}

CosmosMmrInputs ==
    [cfg : {DefaultConfig}, embedding : {QUERY_EMBEDDING}, k : MmrKValues,
     fetch_k : {20}, lambda_mult : LambdaValues, search_type : {"vector", "hybrid"},
     with_embedding : BOOLEAN, where : {PyNone},
     answer : CosmosAnswers(20)]

(***************************************************************************)
(* The search operations.  Each runs from the idle store to its return     *)
(* value or exception in one step and leaves in calls the collaborator     *)
(* calls it made.                                                          *)
(***************************************************************************)
\* the frame a finished handler leaves
Finish(name, a, outcome) ==
    /\ op' = name
    /\ args' = a
    /\ ret' = outcome.ret
    /\ calls' = outcome.calls

\* SQLServer_VectorStore.similarity_search_by_vector_with_score(embedding, k, filter=...)
SqlSimilaritySearch ==
    /\ op = "init"
    /\ \E a \in SqlSearchInputs :
        Finish("sql.similarity_search_by_vector_with_score", a,
               similarity_search_by_vector_with_score(a.embedding, a.k, a.filter,
                                                      sa_has_nin, a.answer))
    /\ UNCHANGED <<sa_has_nin, sql_table, table_exists, container, uuid_count, pc>>

\* SQLServer_VectorStore.max_marginal_relevance_search_by_vector(embedding, k, fetch_k, lambda_mult, filter=...)
SqlMmrSearch ==
    /\ op = "init"
    /\ \E a \in SqlMmrInputs :
        Finish("sql.max_marginal_relevance_search_by_vector", a,
               sql_max_marginal_relevance_search_by_vector(
                   a.embedding, a.k, a.fetch_k, a.lambda_mult, a.filter,
                   sa_has_nin, a.answer))
    /\ UNCHANGED <<sa_has_nin, sql_table, table_exists, container, uuid_count, pc>>

\* AzureCosmosDBNoSqlVectorSearch.similarity_search_with_score(query, k, ...)
CosmosSimilaritySearch ==
    /\ op = "init"
    /\ \E a \in CosmosSearchInputs :
        Finish("cosmos.similarity_search_with_score", a,
               similarity_search_with_score(
                   a.cfg, a.query, a.k, a.with_embedding, a.search_type,
                   a.offset_limit, a.full_text_rank_filter, a.projection_mapping,
                   a.where, a.answer))
    /\ UNCHANGED <<sa_has_nin, sql_table, table_exists, container, uuid_count, pc>>

\* AzureCosmosDBNoSqlVectorSearch.max_marginal_relevance_search_by_vector(embedding, k, fetch_k, lambda_mult, ...)
CosmosMmrSearch ==
    /\ op = "init"
    /\ \E a \in CosmosMmrInputs :
        Finish("cosmos.max_marginal_relevance_search_by_vector", a,
               cosmos_max_marginal_relevance_search_by_vector(
                   a.cfg, a.embedding, a.k, a.fetch_k, a.lambda_mult, a.search_type,
                   a.with_embedding, a.where, a.answer))
    /\ UNCHANGED <<sa_has_nin, sql_table, table_exists, container, uuid_count, pc>>

SearchNext ==
    SqlSimilaritySearch \/ SqlMmrSearch \/ CosmosSimilaritySearch \/ CosmosMmrSearch
        \/ Return

SearchSpec == Init /\ [][SearchNext]_vars

\* the searches that rerank their candidates
MmrNext == SqlMmrSearch \/ CosmosMmrSearch \/ Return

MmrSpec == Init /\ [][MmrNext]_vars

(***************************************************************************)
(* Reading the frame of a search.                                          *)
(***************************************************************************)
SQL_SEARCH == "sql.similarity_search_by_vector_with_score"
SQL_MMR == "sql.max_marginal_relevance_search_by_vector"
COSMOS_SEARCH == "cosmos.similarity_search_with_score"
COSMOS_MMR == "cosmos.max_marginal_relevance_search_by_vector"

\* the statements the operation sent to its store
StoreCalls ==
    SelectSeq(calls, LAMBDA c : c.call \in {"session.execute", "container.query_items"})

\* the calls of the operation to the reranker
RerankCalls == SelectSeq(calls, LAMBDA c : c.call = "maximal_marginal_relevance")

\* the search type a Cosmos similarity search ran with: its argument, or the
\* store's own when the argument is None or ''
SearchTypeUsed == SearchTypeOr(args.search_type, args.cfg.search_type)

\* the rank filters a Cosmos search of this type needs are there
RankFilterGiven(a) ==
    SearchTypeOr(a.search_type, a.cfg.search_type) \in {"full_text_ranking", "hybrid"}
        => Truthy(a.full_text_rank_filter)

(***************************************************************************)
(* C11: a search with k <= 0 fails with a validation error in every mode   *)
(* and in both stores, and no statement with a non-positive cap is sent to *)
(* the store.  (Stated for requests that are well-formed in every other    *)
(* respect: no filter on the SQL Server store; rank filters present and no *)
(* offset/limit override on the Cosmos store.)                             *)
(***************************************************************************)
C11_NonPositiveLimitRejected ==
    /\ (op = SQL_SEARCH /\ args.k <= 0 /\ args.filter = PyNone)
          => (IsRaise(ret) /\ ret.exc = "ValueError" /\ StoreCalls = <<>>)
    /\ (op = COSMOS_SEARCH /\ args.k <= 0 /\ RankFilterGiven(args)
            /\ args.offset_limit = PyNone /\ args.projection_mapping = PyNone)
          => (IsRaise(ret) /\ ret.exc = "ValueError" /\ StoreCalls = <<>>)

(***************************************************************************)
(* C12: a search request that fails validation (a filter that the filter   *)
(* compiler rejects on the SQL Server store; a ranking or hybrid search    *)
(* without rank filters on the Cosmos store) raises that error before any  *)
(* statement is executed: the call makes no session.execute and no         *)
(* query_items call.                                                       *)
(***************************************************************************)
C12_ValidationBeforeStore ==
    /\ (op \in {SQL_SEARCH, SQL_MMR}
            /\ IsRaise(_create_filter_clause(args.filter, sa_has_nin).ret))
          => (ret = _create_filter_clause(args.filter, sa_has_nin).ret
                /\ StoreCalls = <<>>)
    /\ (op = COSMOS_SEARCH /\ SearchTypeUsed \in {"full_text_ranking", "hybrid"}
            /\ args.full_text_rank_filter = PyNone)
          => (IsRaise(ret) /\ ret.exc = "ValueError" /\ StoreCalls = <<>>)
    /\ (op = COSMOS_MMR /\ args.search_type = "hybrid")
          => (IsRaise(ret) /\ ret.exc = "ValueError" /\ StoreCalls = <<>>)

\* a search with a field name that is no identifier has raised, and nothing
\* was executed
C12_Witness ==
    /\ op = SQL_SEARCH
    /\ args.filter = PyDict(<< <<FIELD_BAD, PyInt(5)>> >>)
    /\ IsRaise(ret)
    /\ ret.exc = "ValueError"
    /\ calls = <<>>

(***************************************************************************)
(* C13: the mapped score of a returned row is the row's distance /         *)
(* SimilarityScore column, untransformed, in vector and hybrid mode (every *)
(* SQL Server search is a vector search), and 0.0 in full-text search and  *)
(* ranking mode.                                                           *)
(***************************************************************************)
\* a SQL Server row with an entity and a distance
IsCompleteRow(r) == r.t = "row" /\ r.EmbeddingStore # PyNone /\ r.distance # PyNone

C13_ScoreIsColumnValue ==
    /\ (op = SQL_SEARCH /\ ~IsRaise(ret)) =>
          LET rows == args.answer.rows
          IN  /\ \A i \in 1..Len(ret.value) :
                    \E j \in 1..Len(rows) :
                        /\ IsCompleteRow(rows[j])
                        /\ rows[j].EmbeddingStore.content = ret.value[i][1].page_content
                        /\ rows[j].distance = ret.value[i][2]
              /\ (\A j \in 1..Len(rows) : IsCompleteRow(rows[j])) =>
                    /\ Len(ret.value) = Len(rows)
                    /\ \A i \in 1..Len(rows) : ret.value[i][2] = rows[i].distance
    /\ (op = COSMOS_SEARCH /\ ~IsRaise(ret)) =>
          LET rows == args.answer.rows
          IN  /\ Len(ret.value) = Len(rows)
              /\ \A i \in 1..Len(rows) :
                    ret.value[i][2] =
                        IF SearchTypeUsed \in {"vector", "hybrid"}
                        THEN DictGet(rows[i], KEY_SCORE)
                        ELSE PyFloat(0, 0)

\* a SQL Server search has mapped two rows with different distances
C13_Witness ==
    /\ op = SQL_SEARCH
    /\ ~IsRaise(ret)
    /\ args.answer.rows = <<ROW_C, ROW_A>>
    /\ Len(ret.value) = 2
    /\ ret.value[1][2] = PyFloat(0, 2)
    /\ ret.value[2][2] = PyFloat(1, 0)

(***************************************************************************)
(* C14: a raw row that fails to decode (it lacks the content field or the  *)
(* score column) is skipped without failing the search; the other rows are *)
(* mapped and returned in store order, and each skip is counted (one       *)
(* logged error per skipped row).                                          *)
(***************************************************************************)
\* a Cosmos item has the keys a search of this type with the default
\* projection reads
ItemDecodes(item, search_type) ==
    /\ DictHas(item, COLUMN_TEXT)
    /\ DictHas(item, KEY_ID)
    /\ search_type \in {"vector", "hybrid"} => DictHas(item, KEY_SCORE)

SkipsLogged ==
    SelectSeq(calls, LAMBDA c : c.call = "logging.error"
                                  /\ c.message = INVALID_INPUT_ERROR_MESSAGE)

C14_UndecodableRowSkipped ==
    /\ (op = SQL_SEARCH /\ args.filter = PyNone /\ args.answer.t = "rows") =>
          LET rows == args.answer.rows
              good == SelectSeq(rows, IsCompleteRow)
          IN  /\ ~IsRaise(ret)
              /\ Len(ret.value) = Len(good)
              /\ \A i \in 1..Len(good) :
                    /\ ret.value[i][1].page_content = good[i].EmbeddingStore.content
                    /\ ret.value[i][2] = good[i].distance
              /\ Len(SkipsLogged) = Len(rows) - Len(good)
    /\ (op = COSMOS_SEARCH /\ args.cfg = DefaultConfig /\ args.answer.t = "rows"
            /\ args.k > 0 /\ RankFilterGiven(args) /\ ~args.with_embedding
            /\ args.projection_mapping = PyNone /\ args.offset_limit = PyNone) =>
          LET rows == args.answer.rows
              good == SelectSeq(rows, LAMBDA r : ItemDecodes(r, SearchTypeUsed))
          IN  /\ ~IsRaise(ret)
              /\ Len(ret.value) = Len(good)
              /\ \A i \in 1..Len(good) :
                    ret.value[i][1].page_content = DictGet(good[i], COLUMN_TEXT)

(***************************************************************************)
(* C15: an MMR search returns the fetched candidates at the indices the    *)
(* reranker chose, in selection order: the i-th returned document is the   *)
(* candidate that was selected i-th, in both stores.  (Stated for answers  *)
(* whose rows are all complete.)                                           *)
(***************************************************************************)
C15_MmrSelectionOrder ==
    /\ (op = SQL_MMR /\ ~IsRaise(ret)
            /\ \A j \in 1..Len(args.answer.rows) : IsCompleteRow(args.answer.rows[j])) =>
          LET rows == args.answer.rows
              selected == RerankCalls[1].selected
          IN  /\ Len(ret.value) = Len(selected)
              /\ \A i \in 1..Len(selected) :
                    ret.value[i].page_content
                        = rows[selected[i] + 1].EmbeddingStore.content
    /\ (op = COSMOS_MMR /\ ~IsRaise(ret)) =>
          LET rows == args.answer.rows
              selected == RerankCalls[1].selected
          IN  /\ Len(ret.value) = Len(selected)
              /\ \A i \in 1..Len(selected) :
                    ret.value[i].page_content = DictGet(rows[selected[i] + 1], COLUMN_TEXT)

\* the reranker call of a finished MMR search, if it made one
MmrSearchReranked == op \in {SQL_MMR, COSMOS_MMR} /\ Len(RerankCalls) = 1

(***************************************************************************)
(* C16: the MMR selection has at most k indices, holds no candidate twice, *)
(* holds every candidate exactly once when k is the number of candidates   *)
(* (lambda = 0 included), and is empty, the search returning an empty list *)
(* and no error, when there is no candidate.                               *)
(***************************************************************************)
C16_MmrSelectionBounds ==
    MmrSearchReranked =>
        LET rerank == RerankCalls[1]
            selected == rerank.selected
        IN  /\ Len(selected) <= rerank.k
            /\ \A i, j \in 1..Len(selected) : selected[i] = selected[j] => i = j
            /\ \A i \in 1..Len(selected) : selected[i] \in 0..(rerank.candidates - 1)
            /\ rerank.k = rerank.candidates =>
                  Range(selected) = 0..(rerank.candidates - 1)
            /\ rerank.candidates = 0 =>
                  selected = <<>> /\ ~IsRaise(ret) /\ ret.value = <<>>

\* three candidates, k = 3 and lambda = 0: all three are selected
C16_Witness ==
    /\ MmrSearchReranked
    /\ RerankCalls[1].candidates = MaxRows
    /\ RerankCalls[1].k = MaxRows
    /\ args.lambda_mult = PyFloat(0, 0)
    /\ Len(RerankCalls[1].selected) = MaxRows

(***************************************************************************)
(* Adding texts.                                                           *)
(*                                                                         *)
(* A handler that writes to its store is an operator from its arguments,   *)
(* the stored rows and the number of uuids drawn so far to an Ingested     *)
(* record: the collaborator calls in program order, the returned value or  *)
(* raised exception, the stored rows and the uuid count it leaves.         *)
(***************************************************************************)
Ingested(cs, r, rows, uuids) == [calls |-> cs, ret |-> r, table |-> rows, uuid_count |-> uuids]

\* the n-th value uuid.uuid4() returns
Uuid(n) == [t |-> "uuid", n |-> n]

\* str(uuid.uuid4()) for the n-th uuid
UuidText(n) == <<"u", "u", "i", "d", "-">> \o IntStr(n)

\* str(ids[idx]) for an id that is a str, an int or a UUID
IdText(id) == IF id.t = "uuid" THEN UuidText(id.n) ELSE str(id)

\* a slice that holds the element at a only
SliceOfOne(s, a, b) == SubSeq(s, a + 1, Min(a + 1, Len(s)))

\* s[a:b] of a list, 0-based and clipped to the list
Slice(s, a, b) == SubSeq(s, a + 1, Min(b, Len(s)))

\* what embed_documents answers for one text
Embedding(text) == [t |-> "embedding", of |-> text]

\* self.embedding_function.embed_documents(texts)
EmbedDocuments(texts) == [call |-> "embed_documents", texts |-> texts]

\* the exception a failing embedding call raises
EmbeddingFailure == Raise("EmbeddingError", <<"embed_documents failed">>)

\* the dict _insert_embeddings builds for one text
StoredRow(custom_id, content, content_metadata, embeddings) ==
    [custom_id |-> custom_id, content |-> content,
     content_metadata |-> content_metadata, embeddings |-> embeddings]

\* insert(self._embedding_store).values(documents)
InsertStatement(documents) == [stmt |-> "insert", values |-> documents]

\* session.commit()
Commit == [call |-> "session.commit"]

\* the unique index idx_custom_id rejects the insert: a custom_id is stored
\* already or occurs twice among the documents
ViolatesUniqueIndex(documents, rows) ==
    \/ \E i, j \in 1..Len(documents) :
          i # j /\ documents[i].custom_id = documents[j].custom_id
    \/ \E i \in 1..Len(documents), j \in 1..Len(rows) :
          documents[i].custom_id = rows[j].custom_id

MAX_BATCH_SIZE == 419

\* _validate_batch_size(batch_size)
_validate_batch_size(batch_size) ==
    IF batch_size <= 0 \/ batch_size > MAX_BATCH_SIZE
    THEN Outcome(<<LogError("The request contains an invalid batch_size.")>>,
                 Raise("ValueError",
                       <<"The request contains an invalid batch_size ">>
                           \o IntStr(batch_size)
                           \o <<". \n                  The server supports a maximum batch_size of ">>
                           \o IntStr(MAX_BATCH_SIZE)
                           \o <<".\n                  Please reduce the batch_size and resend the request.">>))
    ELSE Outcome(<<>>, Value(batch_size))

\* ids = [metadata.get("id", uuid.uuid4()) for metadata in metadatas]: one
\* uuid is drawn for every metadata, used or not
IdsFromMetadata(metadatas, uuids) ==
    [j \in 1..Len(metadatas) |->
        IF DictHas(metadatas[j], KEY_ID) THEN DictGet(metadatas[j], KEY_ID)
        ELSE Uuid(uuids + j)]

\* _insert_embeddings(texts, embeddings, metadatas, ids) on the stored rows
_insert_embeddings(texts, embeddings, metadatas, ids, rows, uuids) ==
    LET metas == IF metadatas = PyNone THEN [i \in 1..Len(texts) |-> PyDict(<<>>)]
                 ELSE metadatas.items
        first_ids == IF ids = PyNone THEN IdsFromMetadata(metas, uuids) ELSE ids.items
        drawn == IF ids = PyNone THEN uuids + Len(metas) ELSE uuids
        missing == IF Len(texts) > Len(first_ids) THEN Len(texts) - Len(first_ids) ELSE 0
        all_ids == first_ids \o [j \in 1..missing |-> PyStr(UuidText(drawn + j))]
        documents ==
            [idx \in 1..Len(texts) |->
                StoredRow(IdText(all_ids[idx]), texts[idx].s,
                          IF idx <= Len(metas) THEN metas[idx] ELSE PyDict(<<>>),
                          embeddings[idx])]
        statement == Execute(InsertStatement(documents))
    IN  IF ViolatesUniqueIndex(documents, rows)
        THEN Ingested(<<statement,
                        LogError("Add text failed:\n " \o "cause of " \o "IntegrityError"
                                     \o "\n")>>,
                      Raise("Exception", <<"cause of ", "IntegrityError">>),
                      rows, drawn + missing)
        ELSE Ingested(<<statement, Commit>>, Value(all_ids),
                      rows \o documents, drawn + missing)

\* one round of the for loop of add_texts after its embedding call: the
\* slices of the batch at offset i and _insert_embeddings on them
InsertBatch(texts, metadatas, ids, batch_size, i, rows, uuids) ==
    LET batch == Slice(texts, i, i + batch_size)
        batch_ids == IF ids # PyNone
                     THEN PyList(Slice(ids.items, i, i + batch_size)) ELSE PyNone
        batch_metadatas ==
            IF metadatas # PyNone
            THEN PyList(Slice(metadatas.items, i, i + batch_size)) ELSE PyNone
        batch_result == [j \in 1..Len(batch) |-> Embedding(batch[j])]
    IN  _insert_embeddings(batch, batch_result, batch_metadatas, batch_ids, rows, uuids)

\* self._container.create_item(item)
CreateItem(item) == [call |-> "create_item", item |-> item]

\* the document _insert_texts builds for one text
CosmosItem(cfg, id, text, embedding, metadata) ==
    PyDict(<< <<KEY_ID, PyStr(id)>>, <<cfg.text_field, text>>,
              <<cfg.embedding_field, embedding>>, <<COLUMN_METADATA, metadata>> >>)

\* the exception a failing create_item call raises
CreateItemFailure == Raise("CosmosHttpResponseError", <<"create_item failed">>)

\* _metadatas of add_texts: the metadatas, or one {} for every text
Metadatas(texts, metadatas) ==
    IF metadatas # PyNone THEN metadatas.items
    ELSE [j \in 1..Len(texts.items) |-> PyDict(<<>>)]

\* to_insert of _insert_texts: one item for every triple of
\* zip(texts, metadatas, embeddings), each with a uuid of its own
ToInsert(cfg, texts, metadatas, uuids) ==
    [j \in 1..Min(Len(texts), Len(metadatas)) |->
        CosmosItem(cfg, UuidText(uuids + j), texts[j], Embedding(texts[j]), metadatas[j])]

(***************************************************************************)
(* Inputs of add_texts.                                                    *)
(***************************************************************************)
\* most texts one add_texts call is given
MaxTexts == 3

\* most uuids drawn before a further add_texts call
MaxUuids == MaxTexts + 1

\* the rows the table holds when the store is constructed over it: none, or a
\* row whose custom_id is the first id a caller supplies
PriorTables ==
    {<<>>,
     <<StoredRow(<<"x", "1">>, <<"t", "0">>, PyDict(<<>>), Embedding(PyStr(<<"t", "0">>)))>>}

TextAt(j) == PyStr(<<"t">> \o IntStr(j))

IdAt(j) == PyStr(<<"x">> \o IntStr(j))

\* every other metadata carries an 'id' entry
MetadataAt(j) == IF j % 2 = 1 THEN PyDict(<< <<KEY_ID, PyInt(6 + j)>> >>) ELSE PyDict(<<>>)

IngestTexts == {PyList([j \in 1..n |-> TextAt(j)]) : n \in 0..MaxTexts}

IngestMetadatas == {PyNone} \cup {PyList([j \in 1..n |-> MetadataAt(j)]) : n \in 0..MaxTexts}

IngestIds == {PyNone} \cup {PyList([j \in 1..n |-> IdAt(j)]) : n \in 0..MaxTexts}

\* the batch sizes the constructor accepts
BatchSizes == 1..MaxTexts

\* the number of the embedding call that fails, 0 for none
EmbedFailures == 0..MaxTexts

\* the arguments of add_texts, with the store's rows (stored) and the uuids
\* drawn (uuids) at the time of the call
SqlAddInputs ==
    [texts : {PyNone} \cup IngestTexts, metadatas : IngestMetadatas, ids : IngestIds,
     batch_size : BatchSizes, embed_fails_at : EmbedFailures,
     stored : {sql_table}, uuids : {uuid_count}]

\* the number of the create_item call that fails, 0 for none
CreateFailures == 0..MaxTexts

CosmosAddInputs ==
    {a \in [cfg : {DefaultConfig}, texts : IngestTexts, metadatas : IngestMetadatas,
            embed_fails : BOOLEAN, create_fails_at : CreateFailures,
            stored : {container}, uuids : {uuid_count}] :
        a.embed_fails => a.create_fails_at = 0}

(***************************************************************************)
(* The add_texts calls.  A store is explored from the rows it is           *)
(* constructed over: add_texts is called while the table holds those rows  *)
(* and the container is empty, and while few uuids have been drawn.  The   *)
(* relational add_texts commits each batch in a session of its own and the *)
(* Cosmos DB add_texts stores each item with a call of its own, so a call  *)
(* takes one step per embedding call and per write.                        *)
(***************************************************************************)
SQL_ADD == "sql.add_texts"
COSMOS_ADD == "cosmos.add_texts"

\* the state after construction over a table that may hold a row already
IngestInit ==
    /\ op = "init"
    /\ args = NoArgs
    /\ ret = NoClause
    /\ sa_has_nin \in BOOLEAN
    /\ calls = <<>>
    /\ sql_table \in PriorTables
    /\ table_exists = TRUE
    /\ container = <<>>
    /\ uuid_count = 0
    /\ pc = Idle

\* the frame of a call that goes on to the collaborator call named at
Begin(name, a, cs, at) ==
    /\ op' = name
    /\ args' = a
    /\ ret' = Pending
    /\ calls' = cs
    /\ pc' = Position(at, 0, <<>>)

\* SQLServer_VectorStore.add_texts(texts, metadatas, ids) up to its for loop
SqlAddTexts ==
    /\ op = "init"
    /\ uuid_count <= MaxUuids
    /\ sql_table \in PriorTables
    /\ container = <<>>
    /\ \E a \in SqlAddInputs :
        \E validated \in {_validate_batch_size(a.batch_size)} :
            IF a.texts = PyNone
            THEN Finish(SQL_ADD, a, Outcome(<<>>, Value(<<>>))) /\ pc' = pc
            ELSE IF IsRaise(validated.ret)
            THEN Finish(SQL_ADD, a, validated) /\ pc' = pc
            ELSE IF a.texts.items = <<>>
            THEN Finish(SQL_ADD, a, Outcome(validated.calls, Value(<<>>))) /\ pc' = pc
            ELSE Begin(SQL_ADD, a, validated.calls, "embed_documents")
    /\ UNCHANGED <<sa_has_nin, sql_table, table_exists, container, uuid_count>>

\* as SqlEmbedBatch, but a failing embedding call takes the rows of the
\* batches before out of the table again
SqlEmbedBatchRolledBack ==
    /\ op = SQL_ADD
    /\ pc.at = "embed_documents"
    /\ calls' = Append(calls, EmbedDocuments(Slice(args.texts.items, pc.i,
                                                   pc.i + args.batch_size)))
    /\ IF args.embed_fails_at = (pc.i \div args.batch_size) + 1
       THEN ret' = EmbeddingFailure /\ pc' = Idle /\ sql_table' = args.stored
       ELSE /\ ret' = ret
            /\ pc' = Position("_insert_embeddings", pc.i, pc.acc)
            /\ sql_table' = sql_table
    /\ UNCHANGED <<op, args, sa_has_nin, table_exists, container, uuid_count>>

\* a round of the for loop of add_texts: the batch at offset i is sliced and
\* embedded, and a failing embedding call ends add_texts
SqlEmbedBatch ==
    /\ op = SQL_ADD
    /\ pc.at = "embed_documents"
    /\ calls' = Append(calls, EmbedDocuments(Slice(args.texts.items, pc.i,
                                                   pc.i + args.batch_size)))
    /\ IF args.embed_fails_at = (pc.i \div args.batch_size) + 1
       THEN ret' = EmbeddingFailure /\ pc' = Idle /\ sql_table' = sql_table
       ELSE /\ ret' = ret
            /\ pc' = Position("_insert_embeddings", pc.i, pc.acc)
            /\ sql_table' = sql_table
    /\ UNCHANGED <<op, args, sa_has_nin, table_exists, container, uuid_count>>

\* the rest of the round: _insert_embeddings executes the insert of the batch
\* and commits it, and the loop goes on or add_texts returns the ids
SqlInsertBatch ==
    /\ op = SQL_ADD
    /\ pc.at = "_insert_embeddings"
    /\ \E inserted \in {InsertBatch(args.texts.items, args.metadatas, args.ids,
                                     args.batch_size, pc.i, sql_table, uuid_count)} :
          /\ calls' = calls \o inserted.calls
          /\ sql_table' = inserted.table
          /\ uuid_count' = inserted.uuid_count
          /\ IF IsRaise(inserted.ret)
             THEN ret' = inserted.ret /\ pc' = Idle
             ELSE IF pc.i + args.batch_size >= Len(args.texts.items)
             THEN ret' = Value(pc.acc \o inserted.ret.value) /\ pc' = Idle
             ELSE /\ ret' = ret
                  /\ pc' = Position("embed_documents", pc.i + args.batch_size,
                                    pc.acc \o inserted.ret.value)
    /\ UNCHANGED <<op, args, sa_has_nin, table_exists, container>>

\* AzureCosmosDBNoSqlVectorSearch.add_texts(texts, metadatas) up to the loop
\* of _insert_texts: the texts are embedded and to_insert is built, which
\* draws the uuids of all its items
CosmosAddTexts ==
    /\ op = "init"
    /\ uuid_count <= MaxUuids
    /\ sql_table \in PriorTables
    /\ container = <<>>
    /\ \E a \in CosmosAddInputs :
        \E to_insert \in {ToInsert(a.cfg, a.texts.items,
                                   Metadatas(a.texts, a.metadatas), a.uuids)} :
            IF a.texts.items = <<>>
            THEN /\ Finish(COSMOS_ADD, a,
                           Outcome(<<>>, Raise("Exception",
                                               <<"Texts can not be null or empty">>)))
                 /\ UNCHANGED <<uuid_count, pc>>
            ELSE IF a.embed_fails
            THEN /\ Finish(COSMOS_ADD, a,
                           Outcome(<<EmbedDocuments(a.texts.items)>>, EmbeddingFailure))
                 /\ UNCHANGED <<uuid_count, pc>>
            ELSE IF to_insert = <<>>
            THEN /\ Finish(COSMOS_ADD, a,
                           Outcome(<<EmbedDocuments(a.texts.items)>>, Value(<<>>)))
                 /\ UNCHANGED <<uuid_count, pc>>
            ELSE /\ Begin(COSMOS_ADD, a, <<EmbedDocuments(a.texts.items)>>,
                          "create_item")
                 /\ uuid_count' = uuid_count + Len(to_insert)
    /\ UNCHANGED <<sa_has_nin, sql_table, table_exists, container>>

\* a round of the for loop of _insert_texts: create_item stores the item at
\* offset i, and a failing create_item ends add_texts with the items before
\* it stored
CosmosCreateItem ==
    /\ op = COSMOS_ADD
    /\ pc.at = "create_item"
    /\ \E to_insert \in {ToInsert(args.cfg, args.texts.items,
                                   Metadatas(args.texts, args.metadatas), args.uuids)} :
          /\ calls' = Append(calls, CreateItem(to_insert[pc.i + 1]))
          /\ IF args.create_fails_at = pc.i + 1
             THEN ret' = CreateItemFailure /\ pc' = Idle /\ container' = container
             ELSE /\ container' = Append(container, to_insert[pc.i + 1])
                  /\ IF pc.i + 1 = Len(to_insert)
                     THEN /\ ret' = Value(Append(pc.acc,
                                                 DictGet(to_insert[pc.i + 1], KEY_ID)))
                          /\ pc' = Idle
                     ELSE /\ ret' = ret
                          /\ pc' = Position("create_item", pc.i + 1,
                                            Append(pc.acc,
                                                   DictGet(to_insert[pc.i + 1], KEY_ID)))
    /\ UNCHANGED <<op, args, sa_has_nin, sql_table, table_exists, uuid_count>>

IngestNext ==
    SqlAddTexts \/ SqlEmbedBatch \/ SqlInsertBatch \/ CosmosAddTexts
        \/ CosmosCreateItem \/ Return

IngestSpec == IngestInit /\ [][IngestNext]_vars

(***************************************************************************)
(* Reading the frame of an add_texts call.                                 *)
(***************************************************************************)
\* the embedding calls the operation made, in order
EmbedCalls == SelectSeq(calls, LAMBDA c : c.call = "embed_documents")

\* the rows the call added to the table
AddedRows == SubSeq(sql_table, Len(args.stored) + 1, Len(sql_table))

\* the items the call added to the container
AddedItems == SubSeq(container, Len(args.stored) + 1, Len(container))

\* a call of the relational add_texts on a list of texts that returned
SqlAddReturned == op = SQL_ADD /\ pc = Idle /\ args.texts # PyNone /\ ~IsRaise(ret)

\* a call of the Cosmos DB add_texts that returned
CosmosAddReturned == op = COSMOS_ADD /\ pc = Idle /\ ~IsRaise(ret)

\* ceil(n / b)
CeilDiv(n, b) == (n + b - 1) \div b

(***************************************************************************)
(* C17: add_texts on the relational store with n texts and batch size b    *)
(* makes exactly ceil(n/b) embedding calls, the j-th on the slice          *)
(* texts[j*b:(j+1)*b], and the batches are sequential: every embedding     *)
(* call is followed by the insert of its batch and the commit, before the  *)
(* next embedding call.                                                    *)
(***************************************************************************)
C17_BatchesSequential ==
    SqlAddReturned =>
        LET texts == args.texts.items
            b == args.batch_size
            batches == CeilDiv(Len(texts), b)
            last(j) == IF j * b <= Len(texts) THEN j * b ELSE Len(texts)
            batch(j) == [i \in 1..(last(j) - (j - 1) * b) |-> texts[(j - 1) * b + i]]
        IN  /\ Len(EmbedCalls) = batches
            /\ Len(calls) = 3 * batches
            /\ \A j \in 1..batches :
                  /\ calls[3 * j - 2] = EmbedDocuments(batch(j))
                  /\ calls[3 * j - 1].call = "session.execute"
                  /\ calls[3 * j - 1].statement.stmt = "insert"
                  /\ [i \in 1..Len(calls[3 * j - 1].statement.values) |->
                         calls[3 * j - 1].statement.values[i].content]
                       = [i \in 1..Len(batch(j)) |-> batch(j)[i].s]
                  /\ calls[3 * j] = Commit

\* three texts with batch size 2: embedding calls of sizes 2 and 1
C17_Witness ==
    /\ SqlAddReturned
    /\ Len(args.texts.items) = 3
    /\ args.batch_size = 2
    /\ Len(EmbedCalls) = 2
    /\ Len(EmbedCalls[1].texts) = 2
    /\ Len(EmbedCalls[2].texts) = 1

(***************************************************************************)
(* C18: add_texts returns exactly one id per input text and stores exactly *)
(* one row or item per input text, whatever the lengths of texts,          *)
(* metadatas and ids are, in both stores.                                  *)
(***************************************************************************)
C18_OneIdPerText ==
    /\ SqlAddReturned =>
          /\ Len(ret.value) = Len(args.texts.items)
          /\ Len(AddedRows) = Len(args.texts.items)
    /\ CosmosAddReturned =>
          /\ Len(ret.value) = Len(args.texts.items)
          /\ Len(AddedItems) = Len(args.texts.items)

\* the id the precedence assigns to the text at position p (1-based) when a
\* caller id or a metadata 'id' decides it
DecidedId(p) ==
    IF args.ids # PyNone /\ p <= Len(args.ids.items) THEN IdText(args.ids.items[p])
    ELSE IdText(DictGet(args.metadatas.items[p], KEY_ID))

\* whether a caller id or a metadata 'id' exists for position p
IdIsDecided(p) ==
    \/ args.ids # PyNone /\ p <= Len(args.ids.items)
    \/ /\ args.metadatas # PyNone
       /\ p <= Len(args.metadatas.items)
       /\ DictHas(args.metadatas.items[p], KEY_ID)

\* the texts of the uuids drawn during the call
FreshIds == {UuidText(n) : n \in (args.uuids + 1)..uuid_count}

(***************************************************************************)
(* C19: the id assigned to the text at a position is the caller's id at    *)
(* that position if there is one, else the 'id' entry of that text's       *)
(* metadata if there is one, else a freshly generated id; position by      *)
(* position, also beyond the end of a caller's ids list that is too short. *)
(***************************************************************************)
C19_IdPrecedence ==
    SqlAddReturned =>
        \A p \in 1..Len(args.texts.items) :
            /\ IdIsDecided(p) => AddedRows[p].custom_id = DecidedId(p)
            /\ ~IdIsDecided(p) => AddedRows[p].custom_id \in FreshIds

\* the call raised what its failing embedding call raised
EmbeddingFailed == IsRaise(ret) /\ ret = EmbeddingFailure

(***************************************************************************)
(* C20: when the embedding call of batch j fails, add_texts raises and     *)
(* returns no ids, makes no further embedding or insert call, leaves the   *)
(* rows of the batches before j committed in the table, and stores no row  *)
(* of batch j or of a later batch.                                         *)
(***************************************************************************)
C20_EmbeddingFailureAborts ==
    /\ (op = SQL_ADD /\ EmbeddingFailed) =>
          LET texts == args.texts.items
              j == args.embed_fails_at
              before == (j - 1) * args.batch_size
          IN  /\ Len(EmbedCalls) = j
              /\ calls[Len(calls)].call = "embed_documents"
              /\ Len(SelectSeq(calls, LAMBDA c : c = Commit)) = j - 1
              /\ Len(SelectSeq(calls, LAMBDA c : c.call = "session.execute")) = j - 1
              /\ sql_table = args.stored \o AddedRows
              /\ [i \in 1..Len(AddedRows) |-> AddedRows[i].content]
                    = [i \in 1..before |-> texts[i].s]
    /\ (op = COSMOS_ADD /\ EmbeddingFailed) =>
          /\ calls = <<EmbedDocuments(args.texts.items)>>
          /\ container = args.stored

\* the second embedding call fails: the first batch stays stored
C20_Witness ==
    /\ op = SQL_ADD
    /\ EmbeddingFailed
    /\ args.embed_fails_at = 2
    /\ Len(AddedRows) = args.batch_size
    /\ Len(args.texts.items) > args.batch_size

(***************************************************************************)
(* SQLServer_VectorStore: delete, get_by_ids and drop.                     *)
(*                                                                         *)
(* Each runs one statement in a session of its own.  What the database     *)
(* does with it is the environment's choice: it runs the statement and the *)
(* commit, or the statement fails, or the commit fails; a failure is a     *)
(* sqlalchemy DBAPIError.  A session that is left without a commit rolls   *)
(* its statement back.  Once drop has removed the table, every statement   *)
(* on it fails.                                                            *)
(***************************************************************************)
\* what a handler on the table leaves behind: its collaborator calls, its
\* return value or exception, and the stored rows
Written(cs, r, rows) == [calls |-> cs, ret |-> r, table |-> rows]

EMPTY_IDS_ERROR_MESSAGE == "Empty list of ids provided"

INVALID_IDS_ERROR_MESSAGE == "Invalid list of ids provided"

\* the database runs the statement and the commit
DB_OK == "ok"
\* session.execute / query.delete raises a DBAPIError
DB_STATEMENT_FAILS == "statement fails"
\* session.commit raises a DBAPIError
DB_COMMIT_FAILS == "commit fails"

\* e.__cause__ of the DBAPIError, as logging.error is given it
DBAPI_CAUSE == "cause of DBAPIError"

\* custom_id.in_(ids) for one stored row
CustomIdIn(row, ids) == \E i \in 1..Len(ids) : ids[i].t = "str" /\ ids[i].s = row.custom_id

\* session.query(self._embedding_store)[.filter(custom_id.in_(ids))].delete()
DeleteStatement(ids) == [stmt |-> "delete", ids |-> ids]

\* select(custom_id, content, content_metadata).where(custom_id.in_(ids))
SelectByIdsStatement(ids) == [stmt |-> "select by ids", ids |-> ids]

\* the rows a delete statement matches
Matched(ids, rows) ==
    IF ids = PyNone THEN rows
    ELSE SelectSeq(rows, LAMBDA row : CustomIdIn(row, ids.items))

\* the rows a delete statement leaves
Kept(ids, rows) ==
    IF ids = PyNone THEN <<>>
    ELSE SelectSeq(rows, LAMBDA row : ~CustomIdIn(row, ids.items))

\* return result, when no statement has bound result
UnboundResult ==
    Raise("UnboundLocalError",
          <<"cannot access local variable 'result' where it is not associated with a value">>)

\* _delete_texts_by_ids(ids) on the stored rows
_delete_texts_by_ids(ids, rows, answer) ==
    LET announce == IF ids = PyNone
                    THEN <<LogInfo("Deleting all data in the vectorstore.")>> ELSE <<>>
        statement == Execute(DeleteStatement(ids))
    IN  IF answer = DB_STATEMENT_FAILS
        THEN Written(announce \o <<statement, LogError(DBAPI_CAUSE)>>, UnboundResult, rows)
        ELSE IF answer = DB_COMMIT_FAILS
        THEN Written(announce \o <<statement, Commit, LogError(DBAPI_CAUSE)>>,
                     Value(Len(Matched(ids, rows))), rows)
        ELSE Written(announce \o <<statement, Commit>>,
                     Value(Len(Matched(ids, rows))), Kept(ids, rows))

\* SQLServer_VectorStore.delete(ids)
sql_delete(ids, rows, answer) ==
    LET deleted == _delete_texts_by_ids(ids, rows, answer)
    IN  IF ids # PyNone /\ Len(ids.items) = 0
        THEN Written(<<LogInfo(EMPTY_IDS_ERROR_MESSAGE)>>, Value(PyBool(FALSE)), rows)
        ELSE IF IsRaise(deleted.ret) THEN deleted
        ELSE IF deleted.ret.value = 0
        THEN Written(Append(deleted.calls, LogInfo(INVALID_IDS_ERROR_MESSAGE)),
                     Value(PyBool(FALSE)), deleted.table)
        ELSE Written(Append(deleted.calls,
                            LogInfo(Text(IntStr(deleted.ret.value)) \o " rows affected.")),
                     Value(PyBool(TRUE)), deleted.table)

\* Document(id=..., page_content=..., metadata=...)
DocumentWithId(id, page_content, metadata) ==
    [id |-> id, page_content |-> page_content, metadata |-> metadata]

\* _get_documents_by_ids(ids): result starts as [] and stays so when the
\* statement fails
_get_documents_by_ids(ids, rows, answer) ==
    LET statement == Execute(SelectByIdsStatement(ids))
    IN  IF answer = DB_STATEMENT_FAILS
        THEN Written(<<statement, LogError(DBAPI_CAUSE)>>, Value(<<>>), rows)
        ELSE Written(<<statement>>, Value(Matched(ids, rows)), rows)

\* SQLServer_VectorStore.get_by_ids(ids)
sql_get_by_ids(ids, rows, answer) ==
    LET found == _get_documents_by_ids(ids, rows, answer)
        result == found.ret.value
    IN  IF ids = PyNone \/ Len(ids.items) = 0
        THEN Written(<<LogInfo(EMPTY_IDS_ERROR_MESSAGE)>>, Value(PyList(<<>>)), rows)
        ELSE Written(found.calls,
                     Value(PyList([i \in 1..Len(result) |->
                               DocumentWithId(result[i].custom_id, result[i].content,
                                              result[i].content_metadata)])),
                     rows)

\* what drop leaves behind: its calls, its return value or exception, the
\* stored rows and whether the table is still there
Dropped(cs, r, rows, exists) == [calls |-> cs, ret |-> r, table |-> rows, exists |-> exists]

\* the character U+0060, which no string of this module can hold: a message
\* with it is kept as its pieces
GRAVE_ACCENT == [char |-> "U+0060"]

\* self._embedding_store.__table__.drop(session.get_bind())
DropTable == [call |-> "table.drop"]

\* SQLServer_VectorStore.drop(): answer is DB_OK or the DBAPIError that the
\* DROP TABLE raises; only a ProgrammingError is caught
sql_drop(rows, exists, answer) ==
    LET announce == LogInfo("Dropping vector store: " \o table_name)
    IN  IF answer = DB_OK
        THEN Dropped(<<announce, DropTable, Commit,
                       LogInfo(<<"Vector store ", GRAVE_ACCENT, table_name,
                                 GRAVE_ACCENT, " dropped successfully.">>)>>,
                     Value(PyNone), <<>>, FALSE)
        ELSE IF answer = "ProgrammingError"
        THEN Dropped(<<announce, DropTable,
                       LogError("Unable to drop vector store.\n " \o "cause of "
                                    \o answer \o ".")>>,
                     Value(PyNone), rows, exists)
        ELSE Dropped(<<announce, DropTable>>, Raise(answer, <<answer>>), rows, exists)

(***************************************************************************)
(* AzureCosmosDBNoSqlVectorSearch: delete and delete_document_by_id.       *)
(*                                                                         *)
(* delete sends one delete_item per id, each carried out on its own.  The  *)
(* container removes the item of that id, or rejects the call with a       *)
(* CosmosHttpResponseError (as it does for an id it does not hold); which  *)
(* call it rejects is the environment's choice.                            *)
(***************************************************************************)
\* self._container.delete_item(document_id, partition_key)
DeleteItem(document_id, partition_key) ==
    [call |-> "delete_item", item |-> document_id, partition_key |-> partition_key]

\* the exception a failing delete_item call raises
DeleteItemFailure == Raise("CosmosHttpResponseError", <<"delete_item failed">>)

\* raise ValueError("No document ids provided to delete.")
NoIdsProvided == Raise("ValueError", <<"No document ids provided to delete.">>)

\* the items the container holds after it has deleted the item document_id
WithoutItem(items, document_id) ==
    SelectSeq(items, LAMBDA item : DictGet(item, KEY_ID) # document_id)

\* AzureCosmosDBNoSqlVectorSearch.delete_document_by_id(document_id)
delete_document_by_id(document_id, fails, items) ==
    IF document_id = PyNone THEN Written(<<>>, NoIdsProvided, items)
    ELSE IF fails
    THEN Written(<<DeleteItem(document_id, document_id)>>, DeleteItemFailure, items)
    ELSE Written(<<DeleteItem(document_id, document_id)>>, Value(PyNone),
                 WithoutItem(items, document_id))

(***************************************************************************)
(* Inputs of delete, get_by_ids and drop.                                  *)
(***************************************************************************)
\* the row add_texts stores for the j-th text under the j-th caller id
StoredAt(j) == StoredRow(IdAt(j).s, TextAt(j).s, PyDict(<<>>), Embedding(TextAt(j)))

RECURSIVE RowsOf(_, _)
\* the rows numbered in S, in the order of their numbers, from number j on
RowsOf(S, j) ==
    IF j > MaxTexts THEN <<>>
    ELSE IF j \in S THEN <<StoredAt(j)>> \o RowsOf(S, j + 1)
    ELSE RowsOf(S, j + 1)

\* the tables a store can hold after some add_texts and delete calls
StoredTables == {RowsOf(S, 1) : S \in SUBSET (1..MaxTexts)}

\* ids a caller passes: ids of stored rows and one id that is never stored
IdLists ==
    {PyNone}
    \cup {PyList(s) : s \in SeqsUpTo({IdAt(j) : j \in 1..(MaxTexts + 1)}, 2)}

DatabaseAnswers == {DB_OK, DB_STATEMENT_FAILS, DB_COMMIT_FAILS}

StoreInputs == [ids : IdLists, answer : DatabaseAnswers, stored : {sql_table}]

\* what the database does with the DROP TABLE of drop
DropAnswers == {DB_OK} \cup ExecutionErrors

\* the id add_texts gives the j-th item of a container
ItemIdAt(j) == PyStr(UuidText(j))

\* the containers a store holds after an add_texts call of n texts
StoredContainers ==
    {ToInsert(DefaultConfig, [j \in 1..n |-> TextAt(j)],
              [j \in 1..n |-> PyDict(<<>>)], 0) : n \in 0..MaxTexts}

\* ids a caller passes: ids of stored items and one id that is never stored
ItemIdLists ==
    {PyNone}
    \cup {PyList(s) : s \in SeqsUpTo({ItemIdAt(j) : j \in 1..(MaxTexts + 1)}, 2)}

\* the arguments of delete, with the number of the delete_item call that
\* fails (0 for none) and the items the container holds at the call
CosmosDeleteInputs ==
    {a \in [cfg : {DefaultConfig}, ids : ItemIdLists, delete_fails_at : 0..2,
            stored : {container}] :
        a.delete_fails_at > 0 =>
            (a.ids # PyNone /\ a.delete_fails_at <= Len(a.ids.items))}

DeleteByIdInputs ==
    [document_id : {PyNone} \cup {ItemIdAt(j) : j \in 1..(MaxTexts + 1)},
     fails : BOOLEAN, stored : {container}]

\* the state after construction over a table and a container that hold some
\* rows and items
StoreInit ==
    /\ op = "init"
    /\ args = NoArgs
    /\ ret = NoClause
    /\ sa_has_nin \in BOOLEAN
    /\ calls = <<>>
    /\ sql_table \in StoredTables
    /\ table_exists = TRUE
    /\ container \in StoredContainers
    /\ uuid_count = 0
    /\ pc = Idle

\* SQLServer_VectorStore.delete(ids): on a table that drop has removed the
\* statement fails
SqlDelete ==
    /\ op = "init"
    /\ \E a \in StoreInputs :
        /\ table_exists \/ a.answer = DB_STATEMENT_FAILS
        /\ LET done == sql_delete(a.ids, a.stored, a.answer)
           IN  /\ Finish("sql.delete", a, done)
               /\ sql_table' = done.table
    /\ UNCHANGED <<sa_has_nin, table_exists, container, uuid_count, pc>>

\* SQLServer_VectorStore.get_by_ids(ids): on a table that drop has removed
\* the statement fails
SqlGetByIds ==
    /\ op = "init"
    /\ \E a \in StoreInputs :
        /\ a.answer # DB_COMMIT_FAILS
        /\ table_exists \/ a.answer = DB_STATEMENT_FAILS
        /\ LET done == sql_get_by_ids(a.ids, a.stored, a.answer)
           IN  /\ Finish("sql.get_by_ids", a, done)
               /\ sql_table' = done.table
    /\ UNCHANGED <<sa_has_nin, table_exists, container, uuid_count, pc>>

\* SQLServer_VectorStore.drop(): the DROP TABLE of a table that is not there
\* fails
SqlDrop ==
    /\ op = "init"
    /\ \E answer \in DropAnswers :
        /\ table_exists \/ answer # DB_OK
        /\ LET done == sql_drop(sql_table, table_exists, answer)
           IN  /\ Finish("sql.drop", [answer |-> answer, stored |-> sql_table], done)
               /\ sql_table' = done.table
               /\ table_exists' = done.exists
    /\ UNCHANGED <<sa_has_nin, container, uuid_count, pc>>

\* AzureCosmosDBNoSqlVectorSearch.delete(ids) up to its for loop
CosmosDelete ==
    /\ op = "init"
    /\ \E a \in CosmosDeleteInputs :
        IF a.ids = PyNone
        THEN Finish("cosmos.delete", a, Outcome(<<>>, NoIdsProvided)) /\ pc' = pc
        ELSE IF a.ids.items = <<>>
        THEN Finish("cosmos.delete", a, Outcome(<<>>, Value(PyBool(TRUE)))) /\ pc' = pc
        ELSE Begin("cosmos.delete", a, <<>>, "delete_item")
    /\ UNCHANGED <<sa_has_nin, sql_table, table_exists, container, uuid_count>>

\* a round of the for loop of delete: delete_item removes the item of the id
\* at offset i, and a failing delete_item ends delete with the items before
\* it removed
CosmosDeleteItem ==
    /\ op = "cosmos.delete"
    /\ pc.at = "delete_item"
    /\ calls' = Append(calls, DeleteItem(args.ids.items[pc.i + 1],
                                         args.cfg.partition_key))
    /\ IF args.delete_fails_at = pc.i + 1
       THEN ret' = DeleteItemFailure /\ pc' = Idle /\ container' = container
       ELSE /\ container' = WithoutItem(container, args.ids.items[pc.i + 1])
            /\ IF pc.i + 1 = Len(args.ids.items)
               THEN ret' = Value(PyBool(TRUE)) /\ pc' = Idle
               ELSE ret' = ret /\ pc' = Position("delete_item", pc.i + 1, <<>>)
    /\ UNCHANGED <<op, args, sa_has_nin, sql_table, table_exists, uuid_count>>

\* AzureCosmosDBNoSqlVectorSearch.delete_document_by_id(document_id)
CosmosDeleteDocumentById ==
    /\ op = "init"
    /\ \E a \in DeleteByIdInputs :
        /\ LET done == delete_document_by_id(a.document_id, a.fails, a.stored)
           IN  /\ Finish("cosmos.delete_document_by_id", a, done)
               /\ container' = done.table
    /\ UNCHANGED <<sa_has_nin, sql_table, table_exists, uuid_count, pc>>

StoreNext ==
    SqlDelete \/ SqlGetByIds \/ SqlDrop \/ CosmosDelete \/ CosmosDeleteItem
        \/ CosmosDeleteDocumentById \/ Return

StoreSpec == StoreInit /\ [][StoreNext]_vars

(***************************************************************************)
(* Reading the frame of a delete or get_by_ids call.                       *)
(***************************************************************************)
SQL_DELETE == "sql.delete"
SQL_GET_BY_IDS == "sql.get_by_ids"

\* the call has returned a value
DeleteReturned == op = SQL_DELETE /\ ~IsRaise(ret)

\* the rows of before whose custom_id is none of the strings in ids, in order
RowsOutside(before, ids) ==
    SelectSeq(before, LAMBDA row : row.custom_id \notin {ids[i].s : i \in 1..Len(ids)})

\* C21: on the relational store delete(ids=None) removes every row,
\* delete(ids=[]) removes nothing and returns False, delete(ids) with a
\* non-empty list removes exactly the rows whose custom_id is in ids and leaves
\* every other row unchanged, and the call returns True exactly when at least
\* one row was removed.
C21_DeleteFrameEffect ==
    DeleteReturned =>
        /\ args.ids = PyNone => sql_table = <<>>
        /\ (args.ids # PyNone /\ args.ids.items = <<>>) =>
              (sql_table = args.stored /\ ret = Value(PyBool(FALSE)))
        /\ (args.ids # PyNone /\ args.ids.items # <<>>) =>
              sql_table = RowsOutside(args.stored, args.ids.items)
        /\ ret.value.b <=> Len(sql_table) < Len(args.stored)

\* the call has met a failing statement or commit and has run it once
StoreFailed ==
    /\ op \in {SQL_DELETE, SQL_GET_BY_IDS}
    /\ args.answer # DB_OK
    /\ \E i \in 1..Len(calls) : calls[i].call = "session.execute"

\* C22: whenever the underlying statement execution fails inside a store
\* operation, the failure is surfaced to the caller as an error that carries
\* the original cause, it is never swallowed into a normal return value, and
\* the statement is not retried.
C22_StoreFailureSurfaced ==
    StoreFailed =>
        /\ IsRaise(ret)
        /\ Occurs(<<DBAPI_CAUSE>>, ret.msg)
        /\ Len(SelectSeq(calls, LAMBDA c : c.call = "session.execute")) = 1

(***************************************************************************)
(* AzureAIEmbeddingsModel.                                                 *)
(*                                                                         *)
(* A model object is a record of its fields embed_batch_size, dimensions,  *)
(* model_kwargs and _embed_input_type (None for a cohere model, else       *)
(* TEXT).  The                                                             *)
(* service answers an embed request with one embedding per input text, in  *)
(* input order.  A generator runs only as far as its consumer pulls it:    *)
(* demand is the number of items pulled, and a request is made when the    *)
(* first item of its batch is pulled.                                      *)
(***************************************************************************)
\* a member of azure.ai.inference.models.EmbeddingInputType
EmbeddingInputType(name) == [t |-> "EmbeddingInputType", name |-> name]

INPUT_TEXT == EmbeddingInputType("text")
INPUT_DOCUMENT == EmbeddingInputType("document")
INPUT_QUERY == EmbeddingInputType("query")

\* params.update(kwargs): the pairs of kwargs from the i-th on, set in order
RECURSIVE DictUpdate(_, _, _)
DictUpdate(params, kwargs, i) ==
    IF i > Len(kwargs.kv) THEN params
    ELSE DictUpdate(DictSet(params, kwargs.kv[i][1], kwargs.kv[i][2]), kwargs, i + 1)

\* _get_model_params(**kwargs)
_get_model_params(model, kwargs) ==
    LET with_dimensions ==
            IF Truthy(model.dimensions)
            THEN DictSet(PyDict(<<>>), <<"dimensions">>, model.dimensions)
            ELSE PyDict(<<>>)
        with_extras ==
            IF Truthy(model.model_kwargs)
            THEN DictSet(with_dimensions, <<"model_extras">>, model.model_kwargs)
            ELSE with_dimensions
    IN  DictUpdate(with_extras, kwargs, 1)

\* client.embed(input=..., input_type=..., **params) on the client named
EmbedRequest(client, input, input_type, params) ==
    [call |-> client, input |-> input, input_type |-> input_type, params |-> params]

\* the for loop of _embed and of _embed_async from offset text_batch on, as far
\* as demand items are pulled; so_far holds the requests made and the items
\* yielded
RECURSIVE EmbedLoop(_, _, _, _, _, _, _)
EmbedLoop(model, client, texts, input_type, demand, text_batch, so_far) ==
    IF text_batch >= Len(texts) \/ Len(so_far.ret) >= demand THEN so_far
    ELSE LET input == Slice(texts, text_batch, text_batch + model.embed_batch_size)
             request == EmbedRequest(client, input,
                                     IF model._embed_input_type # PyNone
                                     THEN model._embed_input_type ELSE input_type,
                                     _get_model_params(model, PyDict(<<>>)))
             data == [j \in 1..Len(input) |-> Embedding(input[j])]
             pulled == Slice(data, 0, demand - Len(so_far.ret))
         IN  EmbedLoop(model, client, texts, input_type, demand,
                       text_batch + model.embed_batch_size,
                       Outcome(Append(so_far.calls, request), so_far.ret \o pulled))

\* the generator _embed(texts, input_type), pulled demand times
_embed(model, texts, input_type, demand) ==
    EmbedLoop(model, "_client.embed", texts, input_type, demand, 0, Outcome(<<>>, <<>>))

\* the asynchronous generator _embed_async(texts, input_type), pulled demand
\* times
_embed_async(model, texts, input_type, demand) ==
    EmbedLoop(model, "_async_client.embed", texts, input_type, demand, 0,
              Outcome(<<>>, <<>>))

\* an asynchronous generator that has not been pulled
AsyncGenerator(texts, input_type) ==
    [t |-> "async_generator", texts |-> texts, input_type |-> input_type]

\* embed_documents(texts): list(...) pulls the generator to its end
embed_documents(model, texts) ==
    LET all == _embed(model, texts, INPUT_DOCUMENT, Len(texts))
    IN  Outcome(all.calls, Value(PyList(all.ret)))

\* embed_query(text)
embed_query(model, text) ==
    LET all == _embed(model, <<text>>, INPUT_QUERY, 1)
    IN  Outcome(all.calls, Value(all.ret[1]))

\* await aembed_documents(texts): the generator object is returned as it is
aembed_documents(model, texts) ==
    Outcome(<<>>, Value(AsyncGenerator(texts, INPUT_DOCUMENT)))

\* aembed_query(text): the request _embed_async has made when it awaits it,
\* and the first item pulled once it is answered
aembed_query(model, text) ==
    LET first == _embed_async(model, <<text>>, INPUT_QUERY, 1)
    IN  IF first.ret # <<>> THEN Outcome(first.calls, Value(first.ret[1]))
        ELSE Outcome(first.calls, Value(PyList(<<>>)))

(***************************************************************************)
(* Inputs of the embedding calls.                                          *)
(***************************************************************************)
ModelKwargs == {PyDict(<<>>), PyDict(<< <<<<"user">>, PyStr(<<"u1">>)>> >>)}

EmbeddingModels ==
    [embed_batch_size : BatchSizes, dimensions : {PyNone, PyInt(0), PyInt(8)},
     model_kwargs : ModelKwargs, _embed_input_type : {PyNone, INPUT_TEXT}]

EmbedTexts == {[j \in 1..n |-> TextAt(j)] : n \in 0..(MaxTexts + 1)}

DocumentInputs == [model : EmbeddingModels, texts : EmbedTexts]

QueryTextInputs == [model : EmbeddingModels, text : {TextAt(j) : j \in 1..MaxTexts}]

\* AzureAIEmbeddingsModel.embed_documents(texts)
CallEmbedDocuments ==
    /\ op = "init"
    /\ \E a \in DocumentInputs : Finish("embed_documents", a, embed_documents(a.model, a.texts))
    /\ UNCHANGED <<sa_has_nin, sql_table, table_exists, container, uuid_count, pc>>

\* await AzureAIEmbeddingsModel.aembed_documents(texts)
CallAembedDocuments ==
    /\ op = "init"
    /\ \E a \in DocumentInputs : Finish("aembed_documents", a, aembed_documents(a.model, a.texts))
    /\ UNCHANGED <<sa_has_nin, sql_table, table_exists, container, uuid_count, pc>>

\* AzureAIEmbeddingsModel.embed_query(text)
CallEmbedQuery ==
    /\ op = "init"
    /\ \E a \in QueryTextInputs : Finish("embed_query", a, embed_query(a.model, a.text))
    /\ UNCHANGED <<sa_has_nin, sql_table, table_exists, container, uuid_count, pc>>

\* await AzureAIEmbeddingsModel.aembed_query(text) up to the await of
\* _embed_async: the request of the first batch is sent and not yet answered
CallAembedQuery ==
    /\ op = "init"
    /\ \E a \in QueryTextInputs :
          Begin("aembed_query", a, aembed_query(a.model, a.text).calls,
                "_async_client.embed")
    /\ UNCHANGED <<sa_has_nin, sql_table, table_exists, container, uuid_count>>

\* the awaited request is answered: _embed_async yields the first embedding
\* of the response and aembed_query returns it
AwaitAsyncEmbed ==
    /\ op = "aembed_query"
    /\ pc.at = "_async_client.embed"
    /\ ret' = aembed_query(args.model, args.text).ret
    /\ pc' = Idle
    /\ UNCHANGED <<op, args, calls, sa_has_nin, sql_table, table_exists, container,
                   uuid_count>>

EmbedNext ==
    CallEmbedDocuments \/ CallAembedDocuments \/ CallEmbedQuery \/ CallAembedQuery
        \/ AwaitAsyncEmbed \/ Return

EmbedSpec == Init /\ [][EmbedNext]_vars

\* the embed requests a call has made, whichever client sent them
Requests == [i \in 1..Len(calls) |-> [input |-> calls[i].input, input_type |-> calls[i].input_type, params |-> calls[i].params]]

\* the requests of the synchronous embed_documents for the same texts
SyncRequests(model, texts) ==
    LET made == embed_documents(model, texts).calls
    IN  [i \in 1..Len(made) |-> [input |-> made[i].input, input_type |-> made[i].input_type, params |-> made[i].params]]

\* C23: the asynchronous embedding operations mirror the synchronous ones: for
\* every input list, awaiting aembed_documents yields the same list of
\* embeddings, produced by the same sequence of batched embed requests, as
\* embed_documents, and aembed_query returns the same vector as embed_query.
C23_AsyncMirrorsSync ==
    /\ op = "aembed_documents" =>
          /\ ret = embed_documents(args.model, args.texts).ret
          /\ Requests = SyncRequests(args.model, args.texts)
    /\ (op = "aembed_query" /\ pc = Idle) =>
          ret = embed_query(args.model, args.text).ret

(***************************************************************************)
(* Reading the statement _construct_query has built.  A statement is a     *)
(* sequence of text pieces; the clauses below are what each part of the    *)
(* statement is to be for the arguments a of the call.                     *)
(***************************************************************************)
CONSTRUCT == "_construct_query"

\* the call has returned a statement and its parameters
Constructed == op = CONSTRUCT /\ ~IsRaise(ret)

\* SELECT, the top-k cap when there is no override, and the projection
SelectClause(a) ==
    <<"SELECT ">>
      \o (IF Truthy(a.offset_limit) THEN <<>>
          ELSE IF a.search_type \in {"full_text_ranking", "hybrid"}
          THEN <<"TOP ">> \o IntStr(a.k) \o <<" ">>
          ELSE <<"TOP @limit ">>)
      \o _generate_projection_fields(a.cfg, a.projection_mapping, a.search_type,
                                     a.embeddings, a.full_text_rank_filter,
                                     a.with_embedding)

SourceClause(a) == <<" FROM ">> \o a.cfg.table_alias \o <<" ">>

\* present only if a filter is given
PredicateClause(a) == IF Truthy(a.where) THEN <<"WHERE ">> \o a.where.s ELSE <<>>

\* one FullTextScore term per rank filter, in filter-list order
ScoreTerms(a) == Join(<<", ">>, RankComponents(a.cfg.table_alias, a.full_text_rank_filter))

\* the ranking clause of the mode
RankingClause(a) ==
    CASE a.search_type = "full_text_ranking" /\ Len(a.full_text_rank_filter.items) >= 2 ->
            <<" ORDER BY RANK RRF(">> \o ScoreTerms(a) \o <<")">>
      [] a.search_type = "hybrid" ->
            <<" ORDER BY RANK RRF(">> \o ScoreTerms(a)
                \o <<", \n            VectorDistance(">> \o a.cfg.table_alias \o <<".">>
                \o a.cfg.embedding_field \o <<", ">> \o str(a.embeddings) \o <<"))">>
      [] OTHER -> OrderClause(a.cfg, a.search_type, a.embeddings,
                              a.full_text_rank_filter).text

OffsetLimitClause(a) ==
    IF a.offset_limit # PyNone THEN <<" ">> \o a.offset_limit.s ELSE <<>>

\* C24: for every mode and every non-empty rank-filter list the statement
\* consists, in this order, of the projection clause, the source clause, the
\* predicate clause (only if a filter is given), the ranking clause and the
\* limit/offset clause; in Ranking mode with two or more rank filters the
\* ranking clause is a reciprocal-rank fusion of one full-text score term per
\* rank filter in list order, appended after the earlier clauses, and in
\* Hybrid mode the vector-distance term follows those terms.
C24_ClauseOrder ==
    (Constructed /\ Truthy(args.full_text_rank_filter)) =>
        ret.query = SelectClause(args) \o SourceClause(args) \o PredicateClause(args)
                        \o RankingClause(args) \o OffsetLimitClause(args)

\* the parameter list binds name to value
Binds(parameters, name, value) ==
    \E i \in 1..Len(parameters) :
        parameters[i].name = name /\ parameters[i].value = value

\* the cap k written into the statement as a literal
InlinedCap(a) == <<"TOP ">> \o IntStr(a.k) \o <<" ">>

\* the rank filter item is written into the statement as a FullTextScore
\* term over its field and its quoted terms, in the layout of a fusion term or
\* in the layout of the single ORDER BY RANK term
RankTermInlined(table, search_item, query) ==
    LET terms == Join(<<", ">>, [j \in 1..Len(split(search_item.search_text)) |->
                         <<"'">> \o split(search_item.search_text)[j] \o <<"'">>])
    IN  \/ Occurs(<<"FullTextScore(">> \o table \o <<".">> \o search_item.search_field
                      \o <<", [">> \o terms \o <<"])">>, query)
        \/ Occurs(<<" ORDER BY RANK FullTextScore(">> \o table \o <<".">>
                      \o search_item.search_field \o <<", \n                [">>
                      \o terms \o <<"])">>, query)

\* C25: in Vector and FullTextSearch modes the cap k and the query embedding
\* appear only as the named parameters @limit and @embeddings and never in the
\* statement text; in Ranking and Hybrid modes the parameter list is empty and
\* the cap, the rank terms and (Hybrid) the query embedding are inlined as
\* literals in the statement text.
C25_BoundOrInlined ==
    Constructed =>
        /\ args.search_type \in {"vector", "full_text_search"} =>
              /\ Binds(ret.parameters, <<"@limit">>, PyInt(args.k))
              /\ ~Occurs(InlinedCap(args), ret.query)
              /\ args.embeddings # PyNone => ~Occurs(str(args.embeddings), ret.query)
              /\ args.search_type = "vector" =>
                    Binds(ret.parameters, <<"@embeddings">>, args.embeddings)
        /\ args.search_type \in {"full_text_ranking", "hybrid"} =>
              /\ ret.parameters = <<>>
              /\ ~Truthy(args.offset_limit) => Occurs(InlinedCap(args), ret.query)
              /\ \A i \in 1..Len(args.full_text_rank_filter.items) :
                    RankTermInlined(args.cfg.table_alias,
                                    args.full_text_rank_filter.items[i], ret.query)
              /\ args.search_type = "hybrid" => Occurs(str(args.embeddings), ret.query)

\* the statement holds a top-k cap, bound or inlined
HasCap(a, query) == Occurs(<<"TOP @limit ">>, query) \/ Occurs(InlinedCap(a), query)

\* the statement ends with the pieces of suffix
EndsWith(query, suffix) ==
    /\ Len(suffix) <= Len(query)
    /\ SubSeq(query, Len(query) - Len(suffix) + 1, Len(query)) = suffix

\* C26: in every mode the statement contains a top-k cap exactly when no
\* offset/limit override is supplied and contains the override clause as its
\* final clause exactly when one is supplied; never both and never neither.
C26_CapOrOverride ==
    Constructed =>
        IF Truthy(args.offset_limit)
        THEN /\ EndsWith(ret.query, <<" ">> \o args.offset_limit.s)
             /\ ~HasCap(args, ret.query)
        ELSE HasCap(args, ret.query)

(***************************************************************************)
(* Reading the projection of a statement: the keys under which the items   *)
(* it returns carry a column.  A column written "<path> as <alias>" is     *)
(* emitted under its alias, a column written "<table>.<field>" under the   *)
(* field.                                                                   *)
(***************************************************************************)
\* the statement selects the id
EmitsId(a, query) == Occurs(a.cfg.table_alias \o <<".id, ">>, query)

\* the statement selects the content field, under the alias text or under its
\* own name
EmitsContent(a, query) ==
    \/ Occurs(a.cfg.table_alias \o <<"[@textKey] as text, ">>, query)
    \/ Occurs(<<".id, ">> \o a.cfg.table_alias \o <<".">> \o a.cfg.text_field \o <<" ">>,
              query)

\* the statement selects the metadata field under the alias metadata
EmitsMetadata(a, query) ==
    Occurs(a.cfg.table_alias \o <<"[@metadataKey] as metadata">>, query)

\* the statement selects the similarity score as SimilarityScore
EmitsScore(a, query) ==
    \/ Occurs(<<"[@embeddingKey], ", "@embeddings) as SimilarityScore">>, query)
    \/ Occurs(str(a.embeddings) \o <<") as SimilarityScore">>, query)

\* the statement echoes the embedding field under the alias embedding
EmitsEmbedding(a, query) ==
    \/ Occurs(a.cfg.table_alias \o <<"[@embeddingKey] as embedding">>, query)
    \/ Occurs(a.cfg.table_alias \o <<".">> \o a.cfg.embedding_field \o <<" as embedding">>,
              query)

\* C27: when no projection mapping is given, the projection clause in every
\* mode selects the id, the content field and the metadata field, plus the
\* similarity-score column in Vector and Hybrid modes and the echoed embedding
\* column exactly when with_embedding is set (never in FullTextSearch or
\* Ranking modes).
C27_DefaultProjection ==
    (Constructed /\ ~Truthy(args.projection_mapping)) =>
        /\ EmitsId(args, ret.query)
        /\ EmitsContent(args, ret.query)
        /\ EmitsMetadata(args, ret.query)
        /\ EmitsScore(args, ret.query) <=> args.search_type \in {"vector", "hybrid"}
        /\ EmitsEmbedding(args, ret.query) <=>
              (args.with_embedding /\ args.search_type \in {"vector", "hybrid"})

\* C28: the filter compiler yields 'no predicate' only when the filter
\* argument itself is None: every non-None filter either yields a predicate or
\* raises a validation error, so no filter (such as an $and / $or whose list
\* holds a None child) turns silently into an unfiltered search.
C28_NoSilentUnfiltered ==
    (op = "_create_filter_clause" /\ args.filters # PyNone) =>
        (IsRaise(ret) \/ ret # NoClause)

\* the keys _execute_query reads from an item of the answer
KeysRead(a) ==
    {a.cfg.text_field, a.cfg.metadata_key}
      \cup (IF Truthy(a.projection_mapping)
            THEN {a.projection_mapping.kv[i][2].s :
                     i \in {j \in 1..Len(a.projection_mapping.kv) :
                               a.projection_mapping.kv[j][1] # a.cfg.text_field}}
            ELSE {KEY_ID})
      \cup (IF a.search_type \in {"vector", "hybrid"} THEN {KEY_SCORE} ELSE {})
      \cup (IF a.search_type \in {"vector", "hybrid"} /\ a.with_embedding
            THEN {a.cfg.embedding_field} ELSE {})

\* the projection of the statement emits a column under key
EmitsKey(a, query, key) ==
    \/ key = KEY_ID /\ EmitsId(a, query)
    \/ key = COLUMN_TEXT /\ Occurs(a.cfg.table_alias \o <<"[@textKey] as text, ">>, query)
    \/ key = a.cfg.text_field
          /\ Occurs(<<".id, ">> \o a.cfg.table_alias \o <<".">> \o a.cfg.text_field \o <<" ">>,
                    query)
    \/ key = COLUMN_METADATA /\ EmitsMetadata(a, query)
    \/ key = KEY_SCORE /\ EmitsScore(a, query)
    \/ key = COLUMN_EMBEDDING /\ EmitsEmbedding(a, query)
    \/ Occurs(<<" as ">> \o key, query)
    \/ Occurs(<<"] as ">> \o key, query)

\* the @placeholders the statement text holds
PlaceholdersIn(a, query) ==
    {name \in {<<"@limit">>, <<"@textKey">>, <<"@metadataKey">>, <<"@embeddingKey">>,
               <<"@embeddings">>} :
        \/ name = <<"@limit">> /\ Occurs(<<"TOP @limit ">>, query)
        \/ name = <<"@textKey">> /\ Occurs(<<"[@textKey] as text, ">>, query)
        \/ name = <<"@metadataKey">> /\ Occurs(<<"[@metadataKey] as metadata">>, query)
        \/ name = <<"@embeddingKey">>
              /\ (\/ Occurs(<<"[@embeddingKey] as embedding">>, query)
                  \/ Occurs(<<"[@embeddingKey], ">>, query)
                  \/ Occurs(<<" ORDER BY VectorDistance(c[@embeddingKey], @embeddings)">>,
                            query))
        \/ name = <<"@embeddings">>
              /\ (\/ Occurs(<<"@embeddings) as SimilarityScore">>, query)
                  \/ Occurs(<<" ORDER BY VectorDistance(c[@embeddingKey], @embeddings)">>,
                            query))}
      \cup (IF Truthy(a.projection_mapping)
            THEN {<<"@">> \o a.projection_mapping.kv[i][1] :
                     i \in {j \in 1..Len(a.projection_mapping.kv) :
                               Occurs(<<"[@">> \o a.projection_mapping.kv[j][1]
                                          \o <<"] as ">>, query)}}
            ELSE {})

\* C29: for every query built by _construct_query, every key _execute_query
\* reads from a returned item (the content key, the metadata key, 'id',
\* 'SimilarityScore', the embedding key, each projection alias) is a key under
\* which the statement's projection clause emits a column, and every
\* @placeholder in the statement text has a binding in the parameter list.
C29_ReadKeysEmitted ==
    Constructed =>
        /\ \A key \in KeysRead(args) : EmitsKey(args, ret.query, key)
        /\ \A name \in PlaceholdersIn(args, ret.query) :
              \E i \in 1..Len(ret.parameters) : ret.parameters[i].name = name

\* the container answers the MMR search with items that carry every column a
\* mapped item needs and, when the statement echoes it, the embedding
FetchedCandidates ==
    /\ op = COSMOS_MMR
    /\ args.search_type = "vector"
    /\ args.answer.t = "rows"
    /\ args.answer.rows # <<>>
    /\ \A i \in 1..Len(args.answer.rows) :
          /\ DictHas(args.answer.rows[i], args.cfg.text_field)
          /\ DictHas(args.answer.rows[i], KEY_SCORE)
          /\ args.with_embedding => DictHas(args.answer.rows[i], COLUMN_EMBEDDING)

\* C30: in the document-store MMR search every fetched candidate handed to
\* the reranker has its embedding available, whatever the value of
\* with_embedding (its default False included): the reranker receives exactly
\* one embedding per fetched candidate and the search does not fail for lack
\* of an embedding.
C30_CandidatesHaveEmbeddings ==
    FetchedCandidates =>
        /\ ~IsRaise(ret)
        /\ Len(RerankCalls) = 1
        /\ RerankCalls[1].candidates = Len(args.answer.rows)

====
